---- MODULE Spec2Model ----
(***************************************************************************)
(* Review ingestion / AI reply pipeline of aleev-ai-review-management.     *)
(* The model follows the TypeScript sources: the replies route             *)
(* (src/src/app/api/replies/route.ts), the policy filter of lib/ai         *)
(* (src/unnamed/part_010), the platform adapters                           *)
(* (src/src/lib/platforms/index.ts) and the audit sink (src/src/lib/audit).*)
(* Texts are sequences of one-character strings; JavaScript indexes are    *)
(* 0-based, so character i of a text (0-based) is text[i + 1].             *)
(***************************************************************************)
EXTENDS Integers, Sequences, FiniteSets, TLC

Null == "null"
\* the null of a DateTime? column (times are the integers from 0)
NoDate == -1

Max(S) == CHOOSE x \in S : \A y \in S : y <= x
Min(S) == CHOOSE x \in S : \A y \in S : x <= y

(***************************************************************************)
(* Characters                                                              *)
(***************************************************************************)
Digits == {"0", "1", "2", "3", "4", "5", "6", "7", "8", "9"}
LowerSeq == <<"a", "b", "c", "d", "e", "f", "g", "h", "i", "j", "k", "l", "m",
              "n", "o", "p", "q", "r", "s", "t", "u", "v", "w", "x", "y", "z">>
UpperSeq == <<"A", "B", "C", "D", "E", "F", "G", "H", "I", "J", "K", "L", "M",
              "N", "O", "P", "Q", "R", "S", "T", "U", "V", "W", "X", "Y", "Z">>
Lower == {LowerSeq[i] : i \in 1..26}
Upper == {UpperSeq[i] : i \in 1..26}
Letters == Lower \cup Upper
\* \w of a JavaScript regular expression
WordChars == Letters \cup Digits \cup {"_"}
\* \s of a JavaScript regular expression (the ASCII part)
SpaceChars == {" ", "\t", "\n", "\r", "\f"}

\* String.prototype.toLowerCase, one character
LowerChar(c) ==
    IF c \in Upper THEN LowerSeq[CHOOSE i \in 1..26 : UpperSeq[i] = c] ELSE c

\* String.prototype.toLowerCase
ToLowerCase(text) == [i \in 1..Len(text) |-> LowerChar(text[i])]

\* String.prototype.includes
Includes(text, needle) ==
    \E s \in 0..(Len(text) - Len(needle)) :
        \A j \in 1..Len(needle) : text[s + j] = needle[j]

(***************************************************************************)
(* Regular expressions: a pattern is a sequence of items, each a word      *)
(* boundary (\b) or a character class with a greedy repetition min..max    *)
(* (max = -1: unbounded).  MatchHere is the backtracking matcher: the end  *)
(* index of the match of items k.. starting at index pos, or -1.           *)
(***************************************************************************)
B == [kind |-> "b"]
Cls(S, lo, hi) == [kind |-> "c", set |-> S, min |-> lo, max |-> hi]

IsWordAt(text, i) == i >= 0 /\ i < Len(text) /\ text[i + 1] \in WordChars
IsWordBoundary(text, pos) == IsWordAt(text, pos - 1) # IsWordAt(text, pos)

RunLength(text, pos, S, hi) ==
    LET run == Max({n \in 0..(Len(text) - pos) :
                       \A j \in 1..n : text[pos + j] \in S})
    IN  IF hi >= 0 /\ run > hi THEN hi ELSE run

RECURSIVE MatchHere(_, _, _, _)
MatchHere(text, re, k, pos) ==
    IF k > Len(re) THEN pos
    ELSE IF re[k].kind = "b"
         THEN IF IsWordBoundary(text, pos)
              THEN MatchHere(text, re, k + 1, pos) ELSE -1
         ELSE LET run == RunLength(text, pos, re[k].set, re[k].max)
                  ok  == {n \in re[k].min..run :
                             MatchHere(text, re, k + 1, pos + n) # -1}
              IN  IF ok = {} THEN -1
                  ELSE MatchHere(text, re, k + 1, pos + Max(ok))

\* RegExp.prototype.test of a global (/g) pattern: the search starts at the
\* pattern's lastIndex; a match leaves lastIndex at the end of the match, a
\* failure resets it to 0.
RegExpTest(re, text, lastIndex) ==
    LET starts == IF lastIndex > Len(text) THEN {}
                  ELSE {s \in lastIndex..Len(text) : MatchHere(text, re, 1, s) # -1}
    IN  IF starts = {} THEN [matched |-> FALSE, lastIndex |-> 0]
        ELSE [matched |-> TRUE,
              lastIndex |-> MatchHere(text, re, 1, Min(starts))]

\* PII detection regex patterns: email, SSN, credit card, phone
PII_PATTERNS == <<
    <<B, Cls(Letters \cup Digits \cup {".", "_", "%", "+", "-"}, 1, -1),
         Cls({"@"}, 1, 1),
         Cls(Letters \cup Digits \cup {".", "-"}, 1, -1),
         Cls({"."}, 1, 1),
         Cls(Letters \cup {"|"}, 2, -1), B>>,
    <<B, Cls(Digits, 3, 3), Cls({"-"}, 1, 1), Cls(Digits, 2, 2),
         Cls({"-"}, 1, 1), Cls(Digits, 4, 4), B>>,
    <<B, Cls(Digits, 4, 4), Cls({"-"} \cup SpaceChars, 0, 1),
         Cls(Digits, 4, 4), Cls({"-"} \cup SpaceChars, 0, 1),
         Cls(Digits, 4, 4), Cls({"-"} \cup SpaceChars, 0, 1),
         Cls(Digits, 4, 4), B>>,
    <<B, Cls(Digits, 3, 3), Cls({"-"}, 1, 1), Cls(Digits, 3, 3),
         Cls({"-"}, 1, 1), Cls(Digits, 4, 4), B>> >>

NumPatterns == Len(PII_PATTERNS)

\* lastIndex of every pattern when the module is loaded
FreshLastIndex == [i \in 1..NumPatterns |-> 0]

\* Banned phrases for policy filtering (the default list)
BANNED_PHRASES == <<
    [name |-> "refund guaranteed",
     chars |-> <<"r", "e", "f", "u", "n", "d", " ",
                 "g", "u", "a", "r", "a", "n", "t", "e", "e", "d">>],
    [name |-> "always", chars |-> <<"a", "l", "w", "a", "y", "s">>],
    [name |-> "never", chars |-> <<"n", "e", "v", "e", "r">>],
    [name |-> "free meal", chars |-> <<"f", "r", "e", "e", " ", "m", "e", "a", "l">>],
    [name |-> "100% satisfaction",
     chars |-> <<"1", "0", "0", "%", " ", "s", "a", "t", "i", "s",
                 "f", "a", "c", "t", "i", "o", "n">>],
    [name |-> "perfect", chars |-> <<"p", "e", "r", "f", "e", "c", "t">>],
    [name |-> "flawless", chars |-> <<"f", "l", "a", "w", "l", "e", "s", "s">>] >>

\* Crisis keywords for detection (the default list)
CRISIS_KEYWORDS == <<
    [name |-> "lawsuit", chars |-> <<"l", "a", "w", "s", "u", "i", "t">>],
    [name |-> "legal action",
     chars |-> <<"l", "e", "g", "a", "l", " ", "a", "c", "t", "i", "o", "n">>],
    [name |-> "health department",
     chars |-> <<"h", "e", "a", "l", "t", "h", " ",
                 "d", "e", "p", "a", "r", "t", "m", "e", "n", "t">>],
    [name |-> "unsafe", chars |-> <<"u", "n", "s", "a", "f", "e">>],
    [name |-> "contaminated",
     chars |-> <<"c", "o", "n", "t", "a", "m", "i", "n", "a", "t", "e", "d">>],
    [name |-> "poisoned", chars |-> <<"p", "o", "i", "s", "o", "n", "e", "d">>],
    [name |-> "terrible service",
     chars |-> <<"t", "e", "r", "r", "i", "b", "l", "e", " ",
                 "s", "e", "r", "v", "i", "c", "e">>],
    [name |-> "worst experience",
     chars |-> <<"w", "o", "r", "s", "t", " ",
                 "e", "x", "p", "e", "r", "i", "e", "n", "c", "e">>],
    [name |-> "never again",
     chars |-> <<"n", "e", "v", "e", "r", " ", "a", "g", "a", "i", "n">>],
    [name |-> "horrible", chars |-> <<"h", "o", "r", "r", "i", "b", "l", "e">>],
    [name |-> "disgusting",
     chars |-> <<"d", "i", "s", "g", "u", "s", "t", "i", "n", "g">>] >>

\* the length bound of filterPolicy
MaxReplyLength == 500

\* the violation messages; each is a tuple of strings, the banned-phrase
\* message being the template's text and the phrase it quotes
PII_MESSAGE == <<"Contains PII (email, phone, SSN, or credit card)">>
LENGTH_MESSAGE == <<"Exceeds maximum length of 500 characters">>
BannedMessage(phrase) == <<"Contains banned phrase: ", phrase.name>>

\* detectCrisis(text)
detectCrisis(text) ==
    LET lowerText == ToLowerCase(text)
        Found(keyword) == Includes(lowerText, ToLowerCase(keyword.chars))
        foundKeywords == SelectSeq(CRISIS_KEYWORDS, Found)
    IN  [isCrisis |-> Len(foundKeywords) > 0,
         keywords |-> [i \in 1..Len(foundKeywords) |-> foundKeywords[i].name]]

\* The loop over PII_PATTERNS of filterPolicy: after the first k patterns,
\* the violations pushed so far and the lastIndex of every pattern.
RECURSIVE PiiScan(_, _, _)
PiiScan(text, idx, k) ==
    IF k = 0 THEN [violations |-> <<>>, lastIndex |-> idx]
    ELSE LET prev == PiiScan(text, idx, k - 1)
             t    == RegExpTest(PII_PATTERNS[k], text, prev.lastIndex[k])
         IN  [violations |-> IF t.matched
                             THEN Append(prev.violations, PII_MESSAGE)
                             ELSE prev.violations,
              lastIndex  |-> [prev.lastIndex EXCEPT ![k] = t.lastIndex]]

\* a filterPolicy whose length check is text.length >= 500
filterPolicyLengthInclusive(text, idx) ==
    LET pii       == PiiScan(text, idx, NumPatterns)
        lowerText == ToLowerCase(text)
        Hit(phrase) == Includes(lowerText, ToLowerCase(phrase.chars))
        hits      == SelectSeq(BANNED_PHRASES, Hit)
        banned    == [i \in 1..Len(hits) |-> BannedMessage(hits[i])]
        tooLong   == IF Len(text) >= MaxReplyLength THEN <<LENGTH_MESSAGE>> ELSE <<>>
        violations == pii.violations \o banned \o tooLong
    IN  [passed |-> Len(violations) = 0,
         violations |-> violations,
         lastIndex |-> pii.lastIndex]

\* filterPolicy(text), called when the patterns' lastIndex values are idx:
\* its result and the lastIndex values it leaves behind.
filterPolicy(text, idx) ==
    LET pii       == PiiScan(text, idx, NumPatterns)
        lowerText == ToLowerCase(text)
        Hit(phrase) == Includes(lowerText, ToLowerCase(phrase.chars))
        hits      == SelectSeq(BANNED_PHRASES, Hit)
        banned    == [i \in 1..Len(hits) |-> BannedMessage(hits[i])]
        tooLong   == IF Len(text) > MaxReplyLength THEN <<LENGTH_MESSAGE>> ELSE <<>>
        violations == pii.violations \o banned \o tooLong
    IN  [passed |-> Len(violations) = 0,
         violations |-> violations,
         lastIndex |-> pii.lastIndex]

(***************************************************************************)
(* The store and the requests in flight                                    *)
(***************************************************************************)
\* the clock does not run past MaxNow
MaxNow == 2
\* the number of requests a run serves
MaxRequests == 2

\* two requests are in flight at most
Procs == {"p1", "p2"}
Users == {"u1", "u2"}

\* Business rows: each is owned by one user
Business == [b1 |-> [ownerId |-> "u1", name |-> "Bella", brandRules |-> Null],
             b2 |-> [ownerId |-> "u2", name |-> "Tech", brandRules |-> Null]]
\* Location rows: each belongs to one business
LocationBusiness == [loc1 |-> "b1", loc2 |-> "b2"]
LocationIds == DOMAIN LocationBusiness
OwnerOfLocation(loc) == Business[LocationBusiness[loc]].ownerId

\* Shapes of Location.platformAccounts (a JSON record the settings route
\* stores as given): the adapter's fields at the top level, with an expiry
\* and a refresh token, and the per-platform map of the seed.
CfgFlatExpiring ==
    [accessToken |-> "tok", accountId |-> "acc", locationId |-> "gl",
     expiresAt |-> 1, refreshToken |-> "rt"]
CfgPerPlatform ==
    [google |-> [placeId |-> "place", accessToken |-> "tok", connected |-> TRUE]]
\* Location.platformAccounts when the model starts: the per-platform map of
\* the seed, or a record that carries the adapter's fields where the send
\* reads them, with a token that expires at time 1
SeedAccounts == {[loc1 |-> CfgPerPlatform, loc2 |-> CfgPerPlatform],
                 [loc1 |-> CfgFlatExpiring, loc2 |-> CfgPerPlatform]}

\* JavaScript truthiness of a property of a JSON object (absent: undefined)
TruthyStr(obj, key) == key \in DOMAIN obj /\ obj[key] # ""
TruthyNum(obj, key) == key \in DOMAIN obj /\ obj[key] # 0
\* JavaScript truthiness of an optional text
TruthyText(v) == v # Null /\ Len(v) > 0

\* Texts the requests carry
TextClean == <<"o", "k">>
TextEmail == <<"a", "@", "b", ".", "c", "o">>
TextEdited == <<"n", "e", "v", "e", "r">>
TextUnsafe == <<"u", "n", "s", "a", "f", "e">>
\* what the AI generation call may return
AITexts == {TextClean, TextEmail}
\* finalText of an update request: absent, or the caller's text
ExplicitTexts == {Null, TextEdited}
Tones == {"professional"}

\* The store as prisma/seed.ts leaves it, cut down to two reviews of the
\* owner's location: one that has been answered and one that has not.
SeedReviews ==
    {[id |-> "r1", locationId |-> "loc1", platform |-> "GOOGLE",
      platformId |-> "g-1", stars |-> 4, text |-> TextClean,
      authorName |-> "Emily", url |-> "maps/3", updatedAt |-> 0,
      status |-> "AUTO_SENT"],
     [id |-> "r2", locationId |-> "loc1", platform |-> "GOOGLE",
      platformId |-> "g-2", stars |-> 1, text |-> TextUnsafe,
      authorName |-> "Mike", url |-> "maps/2", updatedAt |-> 0,
      status |-> "NEEDS_REPLY"]}
SeedReplies ==
    {[id |-> 1, reviewId |-> "r1", draftText |-> TextClean,
      finalText |-> TextClean, tone |-> "friendly", status |-> "SENT",
      sentById |-> "u1", sentAt |-> 0]}

VARIABLES
    reviews,           \* Review table: a set of rows
    replies,           \* Reply table: a set of rows
    nextReplyId,       \* the id the next created Reply gets
    platformAccounts,  \* Location.platformAccounts, per location
    piiLastIndex,      \* lastIndex of each pattern of PII_PATTERNS
    now,               \* Date.now()
    pc,                \* where each request is
    req,               \* the locals of each request
    served,            \* the number of requests accepted so far
    response,          \* the response sent last
    filterCalls,       \* the filterPolicy calls of a process that only filters
    ingest,            \* the locals of each run of the ingestion job
    hook,              \* the Google webhook: its request and its last response
    deliveries,        \* the events delivered to the Google webhook
    adapterCalls,      \* the calls of a process that only calls the Google adapter
    metrics,           \* Metrics table: a set of rows
    rollup,            \* the locals of each run of the metrics job
    requestCounts,     \* the rate limiter's map: identifier -> count, resetTime
    limitCalls         \* the rateLimit calls made so far and their results

vars == <<reviews, replies, nextReplyId, platformAccounts, piiLastIndex, now,
          pc, req, served, response, filterCalls, ingest, hook,
          adapterCalls, metrics, rollup, requestCounts, limitCalls, deliveries>>

\* the locals of a request that has not started
NoReq == [action |-> Null, userId |-> Null, reviewId |-> Null, replyId |-> Null,
          tone |-> Null, finalText |-> Null, review |-> Null, reply |-> Null,
          config |-> Null, aiResponse |-> Null, aiCalled |-> FALSE,
          flagged |-> FALSE, text |-> Null, postResult |-> Null,
          refreshed |-> FALSE, error |-> Null]

\* no response has been sent yet
NoResponse == [action |-> Null, userId |-> Null, replyId |-> Null,
               finalText |-> Null, status |-> 0, error |-> Null,
               aiCalled |-> FALSE, flagged |-> FALSE, audit |-> "none"]

ReviewById(id) == CHOOSE r \in reviews : r.id = id
ReplyById(id) == CHOOSE r \in replies : r.id = id

\* the runs of the ingestion job: the scheduler's and one that overlaps it
Runs == {"j1", "j2"}

\* the locals of a run that has not started: the position in the loops
\* (location li, entry pi of its platformAccounts), the reviews read and not
\* yet processed, the result of the last findUnique, the two counters, how
\* the last awaited call of the loops ended, and the status of the response
NoRun == [pc |-> "idle", li |-> 0, pi |-> 0, queue |-> << >>,
          existing |-> FALSE, totalIngested |-> 0, totalErrors |-> 0,
          last |-> "none", status |-> 0]

\* the webhook before any delivery: no request in progress, no delivery
\* counted, no response
NoHook == [pc |-> "idle", count |-> 0, review |-> Null, status |-> 0]

\* the runs of the metrics job, and the locals of a run that has not started
Rollups == {"k1", "k2"}
NoRollup == [pc |-> "idle", impl |-> "none", today |-> 0, gathered |-> << >>,
             bi |-> 0, totalProcessed |-> 0, status |-> 0]

\* new Map(): no identifier has an entry
EmptyMap == [identifier \in {} |-> Null]

Init ==
    /\ reviews = SeedReviews
    /\ replies = SeedReplies
    /\ nextReplyId = 2
    /\ platformAccounts \in SeedAccounts
    /\ piiLastIndex = FreshLastIndex
    /\ now = 1
    /\ pc = [p \in Procs |-> "idle"]
    /\ req = [p \in Procs |-> NoReq]
    /\ served = 0
    /\ response = NoResponse
    /\ filterCalls = << >>
    /\ ingest = [j \in Runs |-> NoRun]
    /\ hook = NoHook
    /\ adapterCalls = << >>
    /\ deliveries = << >>
    /\ metrics = {}
    /\ rollup = [k \in Rollups |-> NoRollup]
    /\ requestCounts = EmptyMap
    /\ limitCalls = << >>

\* logAuditEvent(entry): the row is written, or the write fails and the
\* failure is caught and logged to the console
logAuditEvent == {"written", "failed"}

\* a logAuditEvent without its catch: the failed write is thrown into the
\* handler, whose outer catch answers 500
RespondAuditThrown(p, r, code, audit) ==
    /\ response' = [action |-> r.action, userId |-> r.userId,
                    replyId |-> r.replyId, finalText |-> r.finalText,
                    status |-> IF audit = "failed" THEN 500 ELSE code,
                    error |-> r.error,
                    aiCalled |-> r.aiCalled, flagged |-> r.flagged,
                    audit |-> audit]
    /\ req' = [req EXCEPT ![p] = NoReq]
    /\ pc' = [pc EXCEPT ![p] = "idle"]

\* a request returns: the worker is free again, and the response is the
\* last one sent.  audit tells what became of the request's audit event:
\* "none", "written", or "failed" (the failure was swallowed).
Respond(p, r, code, audit) ==
    /\ response' = [action |-> r.action, userId |-> r.userId,
                    replyId |-> r.replyId, finalText |-> r.finalText,
                    status |-> code, error |-> r.error,
                    aiCalled |-> r.aiCalled, flagged |-> r.flagged,
                    audit |-> audit]
    /\ req' = [req EXCEPT ![p] = NoReq]
    /\ pc' = [pc EXCEPT ![p] = "idle"]

(***************************************************************************)
(* POST /api/replies                                                       *)
(***************************************************************************)
\* ids a request body may name: the rows that exist and one that does not
ReviewIdInputs == {r.id : r \in reviews} \cup {"r0"}
ReplyIdInputs == {r.id : r \in replies} \cup {0}

\* request bodies
Bodies ==
    [action : {"generate"}, reviewId : ReviewIdInputs, replyId : {Null},
     finalText : {Null}, tone : Tones]
    \cup [action : {"update", "send"}, reviewId : {Null},
          replyId : ReplyIdInputs, finalText : ExplicitTexts, tone : {Null}]
    \cup [action : {"approve"}, reviewId : {Null}, replyId : ReplyIdInputs,
          finalText : {Null}, tone : {Null}]

\* updateReplySchema.parse(body): action must be one of "approve", "send"
UpdateSchemaAccepts(body) == body.action \in {"approve", "send"}

\* a dispatch that also hands "approve" to updateReplyAction
HandlerWithApprove(action) ==
    IF action = "generate" THEN "generateReplyAction"
    ELSE IF action \in {"update", "send", "approve"} THEN "updateReplyAction"
    ELSE "none"

\* the function POST hands a body to, by its action: "update" and "send"
\* go to updateReplyAction, "approve" to none
Handler(action) ==
    IF action = "generate" THEN "generateReplyAction"
    ELSE IF action \in {"update", "send"} THEN "updateReplyAction"
    ELSE "none"

\* POST: no session answers 401; a limiter verdict against the caller (an
\* input here) answers 429; then dispatch on body.action.  A throw of the
\* called action (here the schema's parse error) is caught and answered
\* with 500.
POST(p) ==
    /\ pc[p] = "idle"
    /\ served < MaxRequests
    /\ served' = served + 1
    /\ \/ Respond(p, NoReq, 401, "none")
       \/ Respond(p, NoReq, 429, "none")
       \/ \E userId \in Users, body \in Bodies :
            LET r == [NoReq EXCEPT !.action = body.action, !.userId = userId,
                                   !.reviewId = body.reviewId,
                                   !.replyId = body.replyId,
                                   !.finalText = body.finalText,
                                   !.tone = body.tone]
                thrown == [r EXCEPT !.error = "ZodError"]
                invalid == r
            IN  IF Handler(body.action) = "generateReplyAction"
                THEN /\ req' = [req EXCEPT ![p] = r]
                     /\ pc' = [pc EXCEPT ![p] = "gen_findReview"]
                     /\ UNCHANGED response
                ELSE IF Handler(body.action) = "updateReplyAction"
                THEN IF UpdateSchemaAccepts(body)
                     THEN /\ req' = [req EXCEPT ![p] = r]
                          /\ pc' = [pc EXCEPT ![p] = "upd_findReply"]
                          /\ UNCHANGED response
                     ELSE Respond(p, thrown, 500, "none")
                ELSE Respond(p, invalid, 400, "none")
    /\ UNCHANGED <<deliveries, adapterCalls, metrics, rollup, requestCounts, limitCalls,
                   filterCalls, ingest, hook, reviews, replies, nextReplyId, platformAccounts,
                   piiLastIndex, now>>

(***************************************************************************)
(* generateReplyAction, one action per awaited call                        *)
(***************************************************************************)
\* a lookup that finds no reply whatever the table holds
NoExistingReply(reviewId) == {}

\* the row prisma.reply.findUnique({ reviewId }) returns: the existing reply
ExistingReply(reviewId) == {x \in replies : x.reviewId = reviewId}

\* prisma.review.findFirst scoped to the caller's businesses (404 when no
\* row matches), then prisma.reply.findUnique by reviewId (409 when the
\* review has a reply).  No other request changes what the first query
\* reads, so the two queries are one step.
GenFindReview(p) ==
    /\ pc[p] = "gen_findReview"
    /\ LET found == {r \in reviews : /\ r.id = req[p].reviewId
                                     /\ OwnerOfLocation(r.locationId) = req[p].userId}
       IN  IF found = {} THEN Respond(p, req[p], 404, "none")
           ELSE IF ExistingReply(req[p].reviewId) # {} THEN Respond(p, req[p], 409, "none")
           ELSE /\ req' = [req EXCEPT ![p].review = CHOOSE r \in found : TRUE]
                /\ pc' = [pc EXCEPT ![p] = "gen_ai"]
                /\ UNCHANGED response
    /\ UNCHANGED <<deliveries, adapterCalls, metrics, rollup, requestCounts, limitCalls,
                   filterCalls, ingest, hook, reviews, replies, nextReplyId, platformAccounts,
                   piiLastIndex, now, served>>

\* a generateReply that looks for the crisis keywords in the text the
\* model call returned
generateReplyCrisisOfReply(reviewText, isCrisis, reply, idx) ==
    LET crisisDetection == detectCrisis(reply)
        policyResult == filterPolicy(reply, idx)
    IN  [reply |-> reply,
         isCrisis |-> crisisDetection.isCrisis \/ isCrisis,
         flagged |-> ~policyResult.passed,
         reason |-> policyResult.violations,
         lastIndex |-> policyResult.lastIndex]

\* generateReply's result for the text the model call returned
generateReply(reviewText, isCrisis, reply, idx) ==
    LET crisisDetection == detectCrisis(reviewText)
        policyResult == filterPolicy(reply, idx)
    IN  [reply |-> reply,
         isCrisis |-> crisisDetection.isCrisis \/ isCrisis,
         flagged |-> ~policyResult.passed,
         reason |-> policyResult.violations,
         lastIndex |-> policyResult.lastIndex]

\* a generate that stores an empty draft before the model call and leaves
\* it behind when the call fails
GenCallAIKeepsDraft(p) ==
    /\ pc[p] = "gen_ai"
    /\ \/ /\ Respond(p, [req[p] EXCEPT !.aiCalled = TRUE,
                                       !.error = "Failed to generate reply"],
                     500, "none")
          /\ replies' = replies \cup
                {[id |-> nextReplyId, reviewId |-> req[p].reviewId,
                  draftText |-> << >>, finalText |-> Null, tone |-> req[p].tone,
                  status |-> "DRAFT", sentById |-> Null, sentAt |-> NoDate]}
          /\ nextReplyId' = nextReplyId + 1
          /\ UNCHANGED piiLastIndex
       \/ \E reply \in AITexts :
            LET ai == generateReply(req[p].review.text, FALSE, reply, piiLastIndex)
            IN  /\ req' = [req EXCEPT ![p].aiCalled = TRUE,
                                      ![p].flagged = ai.flagged,
                                      ![p].aiResponse =
                                          [reply |-> ai.reply, isCrisis |-> ai.isCrisis,
                                           flagged |-> ai.flagged, reason |-> ai.reason]]
                /\ piiLastIndex' = ai.lastIndex
                /\ pc' = [pc EXCEPT ![p] = "gen_create"]
                /\ UNCHANGED <<response, replies, nextReplyId>>
    /\ UNCHANGED <<deliveries, adapterCalls, metrics, rollup, requestCounts, limitCalls,
                   filterCalls, ingest, hook, reviews, platformAccounts, now, served>>

\* await generateReply(...): the model call returns a text or fails; a
\* failure is rethrown and answered with 500 by POST
GenCallAI(p) ==
    /\ pc[p] = "gen_ai"
    /\ \/ /\ Respond(p, [req[p] EXCEPT !.aiCalled = TRUE,
                                       !.error = "Failed to generate reply"],
                     500, "none")
          /\ UNCHANGED piiLastIndex
       \/ \E reply \in AITexts :
            LET ai == generateReply(req[p].review.text, FALSE, reply, piiLastIndex)
            IN  /\ req' = [req EXCEPT ![p].aiCalled = TRUE,
                                      ![p].flagged = ai.flagged,
                                      ![p].aiResponse =
                                          [reply |-> ai.reply, isCrisis |-> ai.isCrisis,
                                           flagged |-> ai.flagged, reason |-> ai.reason]]
                /\ piiLastIndex' = ai.lastIndex
                /\ pc' = [pc EXCEPT ![p] = "gen_create"]
                /\ UNCHANGED response
    /\ UNCHANGED <<deliveries, adapterCalls, metrics, rollup, requestCounts, limitCalls,
                   filterCalls, ingest, hook, reviews, replies, nextReplyId, platformAccounts, now, served>>

\* a Reply table without the unique index: no insert is rejected
NoUniqueIndex(reviewId) == FALSE

\* the unique index on Reply.reviewId: an insert for a review that has a
\* reply is rejected
ReplyInsertRejected(reviewId) == \E x \in replies : x.reviewId = reviewId

\* a create that gives a flagged text another status than DRAFT
NewReplyByFlag(id, reviewId, ai, tone) ==
    [id |-> id, reviewId |-> reviewId, draftText |-> ai.reply, finalText |-> Null,
     tone |-> tone, status |-> IF ai.flagged THEN "FAILED" ELSE "DRAFT",
     sentById |-> Null, sentAt |-> NoDate]

\* the row prisma.reply.create writes
NewReply(id, reviewId, ai, tone) ==
    [id |-> id, reviewId |-> reviewId, draftText |-> ai.reply, finalText |-> Null,
     tone |-> tone, status |-> IF ai.flagged THEN "DRAFT" ELSE "DRAFT",
     sentById |-> Null, sentAt |-> NoDate]

\* prisma.reply.create, then the audit event and the 200 response; the
\* store's rejection is thrown and answered with 500 by POST
GenCreate(p) ==
    /\ pc[p] = "gen_create"
    /\ IF ReplyInsertRejected(req[p].reviewId)
       THEN /\ Respond(p, [req[p] EXCEPT !.error = "UniqueConstraint"], 500, "none")
            /\ UNCHANGED <<replies, nextReplyId>>
       ELSE /\ replies' = replies \cup
                    {NewReply(nextReplyId, req[p].reviewId,
                              req[p].aiResponse, req[p].tone)}
            /\ nextReplyId' = nextReplyId + 1
            /\ \E audit \in logAuditEvent : Respond(p, req[p], 200, audit)
    /\ UNCHANGED <<deliveries, adapterCalls, metrics, rollup, requestCounts, limitCalls,
                   filterCalls, ingest, hook, reviews, platformAccounts, piiLastIndex, now, served>>

(***************************************************************************)
(* Platform adapters                                                       *)
(***************************************************************************)
\* the platform registry
AdapterNames == {"GOOGLE", "YELP", "FACEBOOK", "TRIPADVISOR"}

\* config.expiresAt && config.expiresAt < Date.now()
TokenExpired(config, t) == TruthyNum(config, "expiresAt") /\ config.expiresAt < t

\* newTokens.access_token of refreshGoogleToken
RefreshedToken == "tok2"

\* what one call of the Google adapter did: its result, whether it refreshed
\* the token, whether it called the platform, and the token of that call
AdapterOutcome(result, refreshed, called, token) ==
    [result |-> result, refreshed |-> refreshed, called |-> called,
     token |-> token]

\* GoogleAdapter.postReply(reviewId, reply, config) at time t, step by step:
\* the guard throws; in the try block an expired token without a refresh
\* token throws, a refresh may throw, and both are caught and give false;
\* postGoogleReply gets the token of the config or the refreshed one
GooglePostReplyCalls(config, t) ==
    IF \/ ~TruthyStr(config, "accessToken")
       \/ ~TruthyStr(config, "accountId")
       \/ ~TruthyStr(config, "locationId")
    THEN {AdapterOutcome("throw", FALSE, FALSE, Null)}
    ELSE IF TokenExpired(config, t)
         THEN IF ~TruthyStr(config, "refreshToken")
              THEN {AdapterOutcome("false", FALSE, FALSE, Null)}
              ELSE {AdapterOutcome("true", TRUE, TRUE, RefreshedToken),
                    AdapterOutcome("false", FALSE, FALSE, Null)}
         ELSE {AdapterOutcome("true", FALSE, TRUE, config.accessToken)}

\* GoogleAdapter.readReviews(locationId, config) at time t, step by step:
\* the guard throws; in the try block an expired token without a refresh
\* token, a failed refresh and a failed fetch throw, and the catch rethrows;
\* fetchGoogleReviews gets the token of the config or the refreshed one
GoogleReadReviewsCalls(config, t) ==
    IF \/ ~TruthyStr(config, "accessToken")
       \/ ~TruthyStr(config, "accountId")
       \/ ~TruthyStr(config, "locationId")
    THEN {AdapterOutcome("throw", FALSE, FALSE, Null)}
    ELSE IF TokenExpired(config, t)
         THEN IF ~TruthyStr(config, "refreshToken")
              THEN {AdapterOutcome("throw", FALSE, FALSE, Null)}
              ELSE {AdapterOutcome("list", TRUE, TRUE, RefreshedToken),
                    AdapterOutcome("throw", TRUE, TRUE, RefreshedToken),
                    AdapterOutcome("throw", FALSE, FALSE, Null)}
         ELSE {AdapterOutcome("list", FALSE, TRUE, config.accessToken),
               AdapterOutcome("throw", FALSE, TRUE, config.accessToken)}

\* GoogleAdapter.postReply(reviewId, reply, config) at time t: the results it
\* can have.  Missing fields throw before the try block; inside it an
\* expired token without a refresh token, or a refresh that fails, is
\* caught and gives false; otherwise postGoogleReply returns true.
GooglePostReply(config, t) == {o.result : o \in GooglePostReplyCalls(config, t)}

\* postReply of the Yelp, Facebook and TripAdvisor adapters
UnsupportedPostReply == {"false"}

\* getAdapter(platform).postReply(...): what the call can do
PostReplyCalls(platform, config, t) ==
    IF platform \notin AdapterNames
    THEN {AdapterOutcome("throw", FALSE, FALSE, Null)}
    ELSE IF platform = "GOOGLE" THEN GooglePostReplyCalls(config, t)
    ELSE {AdapterOutcome(r, FALSE, FALSE, Null) : r \in UnsupportedPostReply}

\* getAdapter(platform).postReply(...): the results the call can have
PostReplyResults(platform, config, t) ==
    {o.result : o \in PostReplyCalls(platform, config, t)}

(***************************************************************************)
(* updateReplyAction, one action per awaited call                          *)
(***************************************************************************)
\* a || b || c of JavaScript
Or3(a, b, c) == IF TruthyText(a) THEN a ELSE IF TruthyText(b) THEN b ELSE c

\* a resolution that falls back to a stock text when all three are empty
SendTextOrStock(explicit, reply) ==
    IF TruthyText(Or3(explicit, reply.draftText, reply.finalText))
    THEN Or3(explicit, reply.draftText, reply.finalText)
    ELSE TextClean

\* the text a send posts
SendText(explicit, reply) == Or3(explicit, reply.draftText, reply.finalText)

\* prisma.reply.update(where id, data): the table with the fields of data
\* set in the row
UpdateReply(id, data) ==
    {IF x.id = id THEN [f \in DOMAIN x |-> IF f \in DOMAIN data THEN data[f] ELSE x[f]]
     ELSE x : x \in replies}

\* prisma.review.update(where id, data)
UpdateReview(id, data) ==
    {IF x.id = id THEN [f \in DOMAIN x |-> IF f \in DOMAIN data THEN data[f] ELSE x[f]]
     ELSE x : x \in reviews}

\* data of prisma.reply.update of the approve branch
ApproveData(explicit, reply) ==
    [finalText |-> IF TruthyText(explicit) THEN explicit ELSE reply.draftText,
     status |-> "APPROVED"]

\* prisma.reply.findFirst scoped to the caller's businesses, with the review
\* and its location included; then the branch on data.action: the approve
\* branch updates the reply and answers 200, the send branch goes up to its
\* first awaited call.  (POST answers 400 to "approve" before it gets
\* here, so the approve branch is entered by no request.)
UpdFindReply(p) ==
    /\ pc[p] = "upd_findReply"
    /\ LET found == {x \in replies :
                        /\ x.id = req[p].replyId
                        /\ OwnerOfLocation(ReviewById(x.reviewId).locationId)
                              = req[p].userId}
           reply == CHOOSE x \in found : TRUE
           review == ReviewById(reply.reviewId)
           r == [req[p] EXCEPT !.reply = reply, !.review = review,
                               !.reviewId = reply.reviewId,
                               !.config = platformAccounts[review.locationId]]
           finalText == SendText(req[p].finalText, reply)
       IN  IF found = {} THEN Respond(p, req[p], 404, "none") /\ UNCHANGED replies
           ELSE IF req[p].action = "approve"
           THEN /\ replies' = UpdateReply(reply.id,
                                         ApproveData(req[p].finalText, reply))
                /\ \E audit \in logAuditEvent : Respond(p, req[p], 200, audit)
           ELSE IF ~TruthyText(finalText)
           THEN Respond(p, r, 400, "none") /\ UNCHANGED replies
           ELSE /\ req' = [req EXCEPT ![p] = [r EXCEPT !.text = finalText,
                                                        !.reply = Null]]
                /\ pc' = [pc EXCEPT ![p] = "send_post"]
                /\ UNCHANGED <<response, replies>>
    /\ UNCHANGED <<deliveries, adapterCalls, metrics, rollup, requestCounts, limitCalls,
                   filterCalls, ingest, hook, reviews, nextReplyId, platformAccounts,
                   piiLastIndex, now, served>>

\* await adapter.postReply(review.platformId, finalText, platformConfig)
SendPost(p) ==
    /\ pc[p] = "send_post"
    /\ \E o \in PostReplyCalls(req[p].review.platform, req[p].config, now) :
        /\ req' = [req EXCEPT ![p].postResult = o.result,
                              ![p].refreshed = o.refreshed]
        /\ pc' = [pc EXCEPT ![p] = CASE o.result = "true" -> "send_markSent"
                                     [] o.result = "false" -> "send_markFailed"
                                     [] OTHER -> "send_catch"]
    /\ UNCHANGED <<deliveries, adapterCalls, metrics, rollup, requestCounts, limitCalls,
                   filterCalls, ingest, hook, reviews, replies, nextReplyId, platformAccounts,
                   piiLastIndex, now, served, response>>

\* success: prisma.reply.update to SENT
MarkSent(finalText, userId, t) ==
    [finalText |-> finalText, status |-> "SENT", sentById |-> userId, sentAt |-> t]

SendMarkSent(p) ==
    /\ pc[p] = "send_markSent"
    /\ replies' = UpdateReply(req[p].replyId,
                              MarkSent(req[p].text, req[p].userId, now))
    /\ pc' = [pc EXCEPT ![p] = "send_review"]
    /\ UNCHANGED <<deliveries, adapterCalls, metrics, rollup, requestCounts, limitCalls,
                   filterCalls, ingest, hook, reviews, nextReplyId, platformAccounts, piiLastIndex, now, req, served, response>>

\* success: prisma.review.update to AUTO_SENT, the audit event and the 200
\* response; when the store fails the write, the throw is caught by the
\* catch block of the send
SendUpdateReview(p) ==
    /\ pc[p] = "send_review"
    /\ \/ /\ reviews' = UpdateReview(req[p].reviewId, [status |-> "AUTO_SENT"])
          /\ \E audit \in logAuditEvent : Respond(p, req[p], 200, audit)
       \/ /\ pc' = [pc EXCEPT ![p] = "send_catch"]
          /\ UNCHANGED <<reviews, req, response>>
    /\ UNCHANGED <<deliveries, adapterCalls, metrics, rollup, requestCounts, limitCalls,
                   filterCalls, ingest, hook, replies, nextReplyId, platformAccounts, piiLastIndex,
                   now, served>>

\* a failure branch that puts the reply back to DRAFT
MarkDraftAgain == [status |-> "DRAFT"]

\* failure: data of prisma.reply.update in the else branch and in the catch
MarkFailed == [status |-> "FAILED"]

\* postReply returned false: prisma.reply.update to FAILED, the audit event
\* and the 500 response
SendMarkFailed(p) ==
    /\ pc[p] = "send_markFailed"
    /\ replies' = UpdateReply(req[p].replyId, MarkFailed)
    /\ \E audit \in logAuditEvent : Respond(p, req[p], 500, audit)
    /\ UNCHANGED <<deliveries, adapterCalls, metrics, rollup, requestCounts, limitCalls,
                   filterCalls, ingest, hook, reviews, nextReplyId, platformAccounts, piiLastIndex,
                   now, served>>

\* the catch block of the send: prisma.reply.update to FAILED and the 500
\* response
SendCatch(p) ==
    /\ pc[p] = "send_catch"
    /\ replies' = UpdateReply(req[p].replyId, MarkFailed)
    /\ Respond(p, req[p], 500, "none")
    /\ UNCHANGED <<deliveries, adapterCalls, metrics, rollup, requestCounts, limitCalls,
                   filterCalls, ingest, hook, reviews, nextReplyId, platformAccounts, piiLastIndex, now, served>>

(***************************************************************************)
(* The environment: the clock                                              *)
(***************************************************************************)
Tick ==
    /\ now < MaxNow
    /\ now' = now + 1
    /\ UNCHANGED <<deliveries, adapterCalls, metrics, rollup, requestCounts, limitCalls,
                   filterCalls, ingest, hook, reviews, replies, nextReplyId, platformAccounts,
                   piiLastIndex, pc, req, served, response>>

Next ==
    \/ \E p \in Procs :
        \/ POST(p)
        \/ GenFindReview(p)
        \/ GenCallAI(p)
        \/ GenCreate(p)
        \/ UpdFindReply(p)
        \/ SendPost(p)
        \/ SendMarkSent(p)
        \/ SendUpdateReview(p)
        \/ SendMarkFailed(p)
        \/ SendCatch(p)
    \/ Tick

Spec == Init /\ [][Next]_vars

(***************************************************************************)
(* A process that only calls filterPolicy, as the unit tests of lib/ai do  *)
(***************************************************************************)
\* the calls a run makes
MaxFilterCalls == 3

TextNever == TextEdited
TextSSN == <<"1", "2", "3", "-", "4", "5", "-", "6", "7", "8", "9">>
TextPhone == <<"5", "5", "5", "-", "1", "2", "3", "-", "4", "5", "6", "7">>
TextEmailNever == TextEmail \o <<" ">> \o TextNever
FilterTexts == {TextClean, TextEmail, TextNever, TextSSN, TextPhone, TextEmailNever}

\* one call filterPolicy(text): the patterns keep the lastIndex the call
\* leaves, and the call's result is recorded
FilterCall ==
    /\ Len(filterCalls) < MaxFilterCalls
    /\ \E text \in FilterTexts :
        LET result == filterPolicy(text, piiLastIndex)
        IN  /\ filterCalls' = Append(filterCalls,
                                     [text |-> text, passed |-> result.passed,
                                      violations |-> result.violations])
            /\ piiLastIndex' = result.lastIndex
    /\ UNCHANGED <<deliveries, adapterCalls, metrics, rollup, requestCounts, limitCalls,
                   reviews, replies, nextReplyId, platformAccounts, now,
                   pc, req, served, response, ingest, hook>>

NextFilter == FilterCall

SpecFilter == Init /\ [][NextFilter]_vars

(***************************************************************************)
(* A process that only calls generateReply                                 *)
(***************************************************************************)
\* the calls a run makes
MaxGenerateCalls == 2

\* review texts: without a crisis keyword, with one, with one in capitals
TextUnsafeUpper == <<"U", "n", "S", "A", "F", "E">>
GenerateReviewTexts == {TextClean, TextUnsafe, TextUnsafeUpper}
\* what the model call returns: a clean text, a text with a crisis keyword
\* and no violation, a text with an e-mail address, a text with a banned
\* phrase
GenerateReplyTexts == {TextClean, TextUnsafe, TextEmail, TextEdited}

\* one call generateReply({reviewText, isCrisis}) whose model call returns
\* reply: the call and its result are recorded, and the patterns keep the
\* lastIndex the policy filter leaves
GenerateCall ==
    /\ Len(filterCalls) < MaxGenerateCalls
    /\ \E reviewText \in GenerateReviewTexts, isCrisis \in BOOLEAN,
          reply \in GenerateReplyTexts :
        LET ai == generateReply(reviewText, isCrisis, reply, piiLastIndex)
        IN  /\ filterCalls' = Append(filterCalls,
                                     [reviewText |-> reviewText,
                                      callerCrisis |-> isCrisis,
                                      reply |-> ai.reply,
                                      isCrisis |-> ai.isCrisis,
                                      flagged |-> ai.flagged,
                                      reason |-> ai.reason])
            /\ piiLastIndex' = ai.lastIndex
    /\ UNCHANGED <<deliveries, adapterCalls, metrics, rollup, requestCounts, limitCalls,
                   reviews, replies, nextReplyId, platformAccounts, now,
                   pc, req, served, response, ingest, hook>>

NextGenerate == GenerateCall

SpecGenerate == Init /\ [][NextGenerate]_vars

(***************************************************************************)
(* A process that calls filterPolicy with texts around the length bound    *)
(***************************************************************************)
\* the calls a run makes
MaxLengthCalls == 2

\* "c".repeat(n)
Repeat(c, n) == [i \in 1..n |-> c]

\* texts of 499, 500 and 501 characters without PII or banned phrase: the
\* unit test's "a".repeat(500) and "a".repeat(501), and punctuation only
CleanLengthTexts ==
    {Repeat("a", MaxReplyLength), Repeat("a", MaxReplyLength + 1),
     Repeat("!", MaxReplyLength - 1), Repeat("!", MaxReplyLength)}
\* texts with an e-mail address or a banned phrase in front, padded to 500
\* and to 501 characters, and the empty text
DirtyLengthTexts ==
    {TextEmail \o Repeat("!", MaxReplyLength - Len(TextEmail)),
     TextEdited \o Repeat("!", MaxReplyLength + 1 - Len(TextEdited))}
LengthTexts == CleanLengthTexts \cup DirtyLengthTexts \cup {<< >>}

\* one call filterPolicy(text) with one of these texts
LengthCall ==
    /\ Len(filterCalls) < MaxLengthCalls
    /\ \E text \in LengthTexts :
        LET result == filterPolicy(text, piiLastIndex)
        IN  /\ filterCalls' = Append(filterCalls,
                                     [text |-> text, passed |-> result.passed,
                                      violations |-> result.violations])
            /\ piiLastIndex' = result.lastIndex
    /\ UNCHANGED <<deliveries, adapterCalls, metrics, rollup, requestCounts, limitCalls,
                   reviews, replies, nextReplyId, platformAccounts, now,
                   pc, req, served, response, ingest, hook>>

NextLength == LengthCall

SpecLength == Init /\ [][NextLength]_vars

(***************************************************************************)
(* A process that only calls the Google adapter                            *)
(***************************************************************************)
\* the calls a run makes
MaxAdapterCalls == 2

\* adapter fields with a token that expires at time 1 and no refresh token
CfgFlatNoRefresh ==
    [accessToken |-> "tok", accountId |-> "acc", locationId |-> "gl",
     expiresAt |-> 1]
\* adapter fields without an expiry
CfgFlatConnected ==
    [accessToken |-> "tok", accountId |-> "acc", locationId |-> "gl"]
\* the configurations the adapter is called with
AdapterConfigs == {CfgFlatExpiring, CfgFlatNoRefresh, CfgFlatConnected,
                   CfgPerPlatform}

\* one call adapter.postReply(reviewId, reply, config)
AdapterPostReply ==
    /\ Len(adapterCalls) < MaxAdapterCalls
    /\ \E config \in AdapterConfigs :
        \E outcome \in GooglePostReplyCalls(config, now) :
            adapterCalls' = Append(adapterCalls,
                                   [op |-> "postReply", config |-> config,
                                    t |-> now, outcome |-> outcome])
    /\ UNCHANGED <<deliveries, reviews, replies, nextReplyId, platformAccounts, piiLastIndex,
                   now, pc, req, served, response, filterCalls, ingest, hook,
                   metrics, rollup, requestCounts, limitCalls>>

\* one call adapter.readReviews(locationId, config)
AdapterReadReviews ==
    /\ Len(adapterCalls) < MaxAdapterCalls
    /\ \E config \in AdapterConfigs :
        \E outcome \in GoogleReadReviewsCalls(config, now) :
            adapterCalls' = Append(adapterCalls,
                                   [op |-> "readReviews", config |-> config,
                                    t |-> now, outcome |-> outcome])
    /\ UNCHANGED <<deliveries, reviews, replies, nextReplyId, platformAccounts, piiLastIndex,
                   now, pc, req, served, response, filterCalls, ingest, hook,
                   metrics, rollup, requestCounts, limitCalls>>

NextAdapter == AdapterPostReply \/ AdapterReadReviews \/ Tick

SpecAdapter == Init /\ [][NextAdapter]_vars

(***************************************************************************)
(* The ingestion job: POST /api/jobs/ingest                                *)
(***************************************************************************)
\* the reviews one readReviews call returns at most
MaxDrafts == 1

\* Location.platformAccounts of the locations the job visits: a map from
\* platform key to the platform's configuration.  loc1 has a connected
\* Google account and a key no adapter is registered for; loc2 has a
\* connected Facebook account and a property that is no object.
CfgGoogleConnected ==
    [accessToken |-> "tok", accountId |-> "acc", locationId |-> "gl",
     placeId |-> "place"]
IngestAccounts ==
    [loc1 |-> [google |-> CfgGoogleConnected, legacy |-> [apiKey |-> "k"]],
     loc2 |-> [facebook |-> [accessToken |-> "fb", businessId |-> "biz"],
               accessToken |-> "tok"]]

\* the Review table when the job's model starts: an answered Google review
\* and a flagged Yelp review (reviews of the seed)
IngestSeedReviews ==
    {[id |-> "r1", locationId |-> "loc1", platform |-> "GOOGLE",
      platformId |-> "g-1", stars |-> 4, text |-> TextClean,
      authorName |-> "Emily", url |-> "maps/3", updatedAt |-> 0,
      status |-> "AUTO_SENT"],
     [id |-> "r3", locationId |-> "loc1", platform |-> "YELP",
      platformId |-> "y-1", stars |-> 1, text |-> TextUnsafe,
      authorName |-> "Mike", url |-> "yelp/1", updatedAt |-> 0,
      status |-> "FLAGGED"]}

\* ReviewData a platform may list: a review the store has (new contents), a
\* review it has not (two contents), and a review whose platformId is that
\* of the stored Yelp review
Drafts ==
    {[platformId |-> "g-1", stars |-> 3, text |-> TextEdited,
      authorName |-> "Emily D", url |-> "maps/3b"],
     [platformId |-> "g-9", stars |-> 5, text |-> TextClean,
      authorName |-> "Ann", url |-> "maps/9"],
     [platformId |-> "g-9", stars |-> 2, text |-> TextEdited,
      authorName |-> "Ann B", url |-> "maps/9b"],
     [platformId |-> "y-1", stars |-> 5, text |-> TextClean,
      authorName |-> "Zed", url |-> "maps/y"]}

\* the lists a platform may return: every sequence of at most MaxDrafts
DraftLists == UNION {[1..n -> Drafts] : n \in 0..MaxDrafts}

\* Object.entries(platformAccounts): the keys, in the order they were written
EntryKeys == <<"google", "facebook", "legacy", "accessToken">>
ObjectEntries(obj) == SelectSeq(EntryKeys, LAMBDA k : k \in DOMAIN obj)

\* !config || typeof config !== "object": the properties that hold a string,
\* a number or a boolean are skipped
ScalarKeys == {"accessToken", "refreshToken", "accountId", "locationId",
               "placeId", "businessId", "expiresAt", "connected"}
IsObjectEntry(key) == key \notin ScalarKeys

\* platform.toUpperCase()
PlatformKeyUpper ==
    [google |-> "GOOGLE", yelp |-> "YELP", facebook |-> "FACEBOOK",
     tripadvisor |-> "TRIPADVISOR", legacy |-> "LEGACY"]

\* adapter.isConnected(config)
IsConnected(platform, config) ==
    CASE platform = "GOOGLE" ->
            /\ TruthyStr(config, "accessToken")
            /\ TruthyStr(config, "accountId")
            /\ TruthyStr(config, "locationId")
      [] platform = "FACEBOOK" ->
            TruthyStr(config, "accessToken") /\ TruthyStr(config, "businessId")
      [] OTHER -> FALSE

\* GoogleAdapter.readReviews(locationId, config) at time t: the results it
\* can have.  It throws on missing fields, on an expired token that cannot
\* be refreshed and on a failed fetch; otherwise it returns the platform's
\* listing, which is an input here.
GoogleReadReviews(config, t) ==
    LET thrown == [ok |-> FALSE, reviews |-> << >>]
        lists  == {[ok |-> TRUE, reviews |-> l] : l \in DraftLists}
    IN  IF \/ ~TruthyStr(config, "accessToken")
           \/ ~TruthyStr(config, "accountId")
           \/ ~TruthyStr(config, "locationId")
        THEN {thrown}
        ELSE IF /\ TruthyNum(config, "expiresAt") /\ config.expiresAt < t
                /\ ~TruthyStr(config, "refreshToken")
             THEN {thrown}
             ELSE {thrown} \cup lists

\* readReviews of the Yelp, Facebook and TripAdvisor adapters
UnsupportedReadReviews == {[ok |-> TRUE, reviews |-> << >>]}

\* adapter.readReviews(location.id, config)
ReadReviewsResults(platform, config, t) ==
    IF platform = "GOOGLE" THEN GoogleReadReviews(config, t)
    ELSE UnsupportedReadReviews

\* the locations prisma.location.findMany returns, in order
IngestLocations == <<"loc1", "loc2">>

\* From entry pi of location li on, the loops run without awaiting until an
\* entry with a connected adapter is reached: an entry that is no object is
\* skipped, an entry no adapter is registered for throws in getAdapter and is
\* counted, an entry whose adapter is not connected is skipped.  The result
\* is the entry reached (li past the last location: none) and the errors
\* counted.
RECURSIVE NextRead(_, _, _)
NextRead(li, pi, errs) ==
    IF li > Len(IngestLocations) THEN [li |-> li, pi |-> pi, errs |-> errs]
    ELSE LET accounts == platformAccounts[IngestLocations[li]]
             entries  == ObjectEntries(accounts)
         IN  IF pi > Len(entries) THEN NextRead(li + 1, 1, errs)
             ELSE IF ~IsObjectEntry(entries[pi]) THEN NextRead(li, pi + 1, errs)
             ELSE IF PlatformKeyUpper[entries[pi]] \notin AdapterNames
                  THEN NextRead(li, pi + 1, errs + 1)
             ELSE IF ~IsConnected(PlatformKeyUpper[entries[pi]],
                                  accounts[entries[pi]])
                  THEN NextRead(li, pi + 1, errs)
             ELSE [li |-> li, pi |-> pi, errs |-> errs]

\* the run moves to the entry NextRead reaches, or to the end of the loops
MoveTo(run, pos) ==
    [run EXCEPT !.pc = IF pos.li > Len(IngestLocations) THEN "finish" ELSE "read",
                !.li = pos.li, !.pi = pos.pi, !.totalErrors = pos.errs,
                !.queue = << >>, !.existing = FALSE]

\* the platform key and the configuration of the entry a run is at
RunKey(run) == ObjectEntries(platformAccounts[IngestLocations[run.li]])[run.pi]
RunConfig(run) == platformAccounts[IngestLocations[run.li]][RunKey(run)]

\* POST: a request without the cron secret is answered 401; when
\* prisma.location.findMany throws, the outer catch answers 500; otherwise
\* the loops start
IngestStart(j) ==
    /\ ingest[j].pc = "idle"
    /\ \/ ingest' = [ingest EXCEPT ![j] = [NoRun EXCEPT !.pc = "done", !.status = 401]]
       \/ ingest' = [ingest EXCEPT ![j] = [NoRun EXCEPT !.pc = "done", !.status = 500]]
       \/ ingest' = [ingest EXCEPT ![j] = MoveTo(NoRun, NextRead(1, 1, 0))]
    /\ UNCHANGED <<deliveries, adapterCalls, metrics, rollup, requestCounts, limitCalls,
                   reviews, replies, nextReplyId, platformAccounts, piiLastIndex,
                   now, pc, req, served, response, filterCalls, hook>>

\* await adapter.readReviews(location.id, config): a throw is caught by the
\* platform's catch and counted; the reviews returned are queued
IngestRead(j) ==
    /\ ingest[j].pc = "read"
    /\ LET run == ingest[j]
           platform == PlatformKeyUpper[RunKey(run)]
       IN  \E result \in ReadReviewsResults(platform, RunConfig(run), now) :
             ingest' = [ingest EXCEPT ![j] =
                IF ~result.ok
                THEN [MoveTo(run, NextRead(run.li, run.pi + 1, run.totalErrors + 1))
                        EXCEPT !.last = "readFailed"]
                ELSE IF result.reviews = << >>
                THEN [MoveTo(run, NextRead(run.li, run.pi + 1, run.totalErrors))
                        EXCEPT !.last = "read"]
                ELSE [run EXCEPT !.queue = result.reviews, !.pc = "find",
                                 !.last = "read"]]
    /\ UNCHANGED <<deliveries, adapterCalls, metrics, rollup, requestCounts, limitCalls,
                   reviews, replies, nextReplyId, platformAccounts, piiLastIndex,
                   now, pc, req, served, response, filterCalls, hook>>

\* a Review table whose platformId is not unique
NoUniquePlatformId(platformId) == FALSE

\* the unique index on Review.platformId: an insert of a platformId the
\* table holds is rejected
ReviewInsertRejected(platformId) == \E x \in reviews : x.platformId = platformId

\* await prisma.review.findUnique({ where: { platformId } })
IngestFind(j) ==
    /\ ingest[j].pc = "find"
    /\ ingest' = [ingest EXCEPT
          ![j].existing = \E x \in reviews :
                              x.platformId = Head(ingest[j].queue).platformId,
          ![j].pc = "write"]
    /\ UNCHANGED <<deliveries, adapterCalls, metrics, rollup, requestCounts, limitCalls,
                   reviews, replies, nextReplyId, platformAccounts, piiLastIndex,
                   now, pc, req, served, response, filterCalls, hook>>

\* an update that also resets the status
ResetStatusUpdateData(reviewData, t) ==
    [stars |-> reviewData.stars, text |-> reviewData.text,
     authorName |-> reviewData.authorName, url |-> reviewData.url,
     updatedAt |-> t, status |-> "NEEDS_REPLY"]

\* data of prisma.review.update for an existing review
ReviewUpdateData(reviewData, t) ==
    [stars |-> reviewData.stars, text |-> reviewData.text,
     authorName |-> reviewData.authorName, url |-> reviewData.url,
     updatedAt |-> t]

\* prisma.review.update({ where: { platformId }, data })
UpdateReviewWhere(platformId, data) ==
    {IF x.platformId = platformId
     THEN [f \in DOMAIN x |-> IF f \in DOMAIN data THEN data[f] ELSE x[f]]
     ELSE x : x \in reviews}

\* ids of the rows the job creates
ReviewIdPool == <<"n1", "n2", "n3", "n4", "n5", "n6", "n7", "n8">>
FreshReviewId ==
    ReviewIdPool[Cardinality({x \in reviews : \E i \in DOMAIN ReviewIdPool :
                                                  x.id = ReviewIdPool[i]}) + 1]

\* data of prisma.review.create; status is the column's default
NewReview(id, locationId, platform, reviewData, t) ==
    [id |-> id, locationId |-> locationId, platform |-> platform,
     platformId |-> reviewData.platformId, stars |-> reviewData.stars,
     text |-> reviewData.text, authorName |-> reviewData.authorName,
     url |-> reviewData.url, updatedAt |-> t, status |-> "NEEDS_REPLY"]

\* a review's catch that gives the run up: nothing more is processed
AbortAfterReview(run, failed) ==
    [run EXCEPT !.pc = "finish", !.queue = << >>,
                !.totalErrors = IF failed THEN run.totalErrors + 1
                                ELSE run.totalErrors]

\* after a review was processed (failed: its catch counted an error): the
\* next review of the queue, or the next entry with a connected adapter
AfterReview(run, failed) ==
    LET errs == IF failed THEN run.totalErrors + 1 ELSE run.totalErrors
        rest == Tail(run.queue)
    IN  IF rest # << >>
        THEN [run EXCEPT !.queue = rest, !.pc = "find", !.existing = FALSE,
                         !.totalErrors = errs]
        ELSE MoveTo(run, NextRead(run.li, run.pi + 1, errs))

\* await prisma.review.update(...) or await prisma.review.create(...): the
\* store fails the write, updates the row, rejects the insert or inserts the
\* row; a throw is caught by the review's catch and counted
IngestWrite(j) ==
    /\ ingest[j].pc = "write"
    /\ LET run == ingest[j]
           reviewData == Head(run.queue)
       IN  \/ /\ ingest' = [ingest EXCEPT ![j] =
                    [AfterReview(run, TRUE) EXCEPT !.last = "failed"]]
              /\ UNCHANGED reviews
           \/ /\ run.existing
              /\ reviews' = UpdateReviewWhere(reviewData.platformId,
                                              ReviewUpdateData(reviewData, now))
              /\ ingest' = [ingest EXCEPT ![j] =
                    [AfterReview(run, FALSE) EXCEPT !.last = "updated"]]
           \/ /\ ~run.existing /\ ReviewInsertRejected(reviewData.platformId)
              /\ ingest' = [ingest EXCEPT ![j] =
                    [AfterReview(run, TRUE) EXCEPT !.last = "rejected"]]
              /\ UNCHANGED reviews
           \/ /\ ~run.existing /\ ~ReviewInsertRejected(reviewData.platformId)
              /\ reviews' = reviews \cup
                    {NewReview(FreshReviewId, IngestLocations[run.li],
                               PlatformKeyUpper[RunKey(run)], reviewData, now)}
              /\ ingest' = [ingest EXCEPT ![j] =
                    [AfterReview(run, FALSE) EXCEPT
                        !.totalIngested = run.totalIngested + 1,
                        !.last = "created"]]
    /\ UNCHANGED <<deliveries, adapterCalls, metrics, rollup, requestCounts, limitCalls,
                   replies, nextReplyId, platformAccounts, piiLastIndex,
                   now, pc, req, served, response, filterCalls, hook>>

\* await logAuditEvent(JOB_COMPLETED), whose failure is swallowed, and the
\* completion record {success, totalIngested, totalErrors, locationsProcessed}
IngestFinish(j) ==
    /\ ingest[j].pc = "finish"
    /\ ingest' = [ingest EXCEPT ![j].pc = "done", ![j].status = 200]
    /\ UNCHANGED <<deliveries, adapterCalls, metrics, rollup, requestCounts, limitCalls,
                   reviews, replies, nextReplyId, platformAccounts, piiLastIndex,
                   now, pc, req, served, response, filterCalls, hook>>

(***************************************************************************)
(* The Google webhook: POST /api/webhooks/google                           *)
(***************************************************************************)
\* the deliveries a run makes
MaxHooks == 1

\* the review of a delivery: one of the listed reviews, for a place a
\* location is configured with or for an unknown one
HookReviews ==
    {[id |-> d.platformId, placeId |-> place, stars |-> d.stars, text |-> d.text,
      authorName |-> d.authorName, url |-> d.url] :
        d \in Drafts, place \in {"place", "elsewhere"}}
HookActions == {"review.created", "review.updated"}

\* prisma.location.findFirst by platformAccounts.google.placeId
LocationsOfPlace(placeId) ==
    {l \in DOMAIN platformAccounts :
        /\ "google" \in DOMAIN platformAccounts[l]
        /\ "placeId" \in DOMAIN platformAccounts[l].google
        /\ platformAccounts[l].google.placeId = placeId}

\* the ReviewData of a delivery's review
HookReviewData(review) ==
    [platformId |-> review.id, stars |-> review.stars, text |-> review.text,
     authorName |-> review.authorName, url |-> review.url]

\* the handler returns
HookRespond(code) ==
    hook' = [pc |-> "idle", count |-> hook.count, review |-> Null, status |-> code]

\* the handler from the lookup of the location to the write of the branch
\* taken: an unknown place is answered 200; review.created answers 200 when
\* the review exists and goes on to create it otherwise; review.updated
\* updates the row with the review's platformId, and a missing row is a throw
\* that is caught and answered 500
WebhookHandle(action, review) ==
    LET exists == \E x \in reviews : x.platformId = review.id
        answer(code) == hook' = [NoHook EXCEPT !.count = hook.count + 1,
                                              !.status = code]
    IN  IF LocationsOfPlace(review.placeId) = {}
        THEN answer(200) /\ UNCHANGED reviews
        ELSE IF action = "review.created"
        THEN IF exists
             THEN answer(200) /\ UNCHANGED reviews
             ELSE /\ hook' = [pc |-> "create", count |-> hook.count + 1,
                              review |-> review, status |-> 0]
                  /\ UNCHANGED reviews
        ELSE IF exists
             THEN /\ reviews' = UpdateReviewWhere(review.id,
                         ReviewUpdateData(HookReviewData(review), now))
                  /\ answer(200)
             ELSE answer(500) /\ UNCHANGED reviews

\* POST up to the write of the branch taken: 503 when the webhook is not
\* configured; a body the schema rejects is caught and answered 500;
\* otherwise the event is handled
WebhookPOST ==
    /\ hook.pc = "idle"
    /\ hook.count < MaxHooks
    /\ \/ /\ hook' = [NoHook EXCEPT !.count = hook.count + 1, !.status = 503]
          /\ UNCHANGED reviews
       \/ /\ hook' = [NoHook EXCEPT !.count = hook.count + 1, !.status = 500]
          /\ UNCHANGED reviews
       \/ \E action \in HookActions, review \in HookReviews :
            WebhookHandle(action, review)
    /\ UNCHANGED <<deliveries, adapterCalls, metrics, rollup, requestCounts, limitCalls,
                   replies, nextReplyId, platformAccounts, piiLastIndex,
                   now, pc, req, served, response, filterCalls, ingest>>

\* await prisma.review.create(...) of review.created: a rejected insert is
\* caught and answered 500
WebhookCreate ==
    /\ hook.pc = "create"
    /\ IF ReviewInsertRejected(hook.review.id)
       THEN HookRespond(500) /\ UNCHANGED reviews
       ELSE /\ reviews' = reviews \cup
                 {NewReview(FreshReviewId,
                            CHOOSE l \in LocationsOfPlace(hook.review.placeId) : TRUE,
                            "GOOGLE", HookReviewData(hook.review), now)}
            /\ HookRespond(200)
    /\ UNCHANGED <<deliveries, adapterCalls, metrics, rollup, requestCounts, limitCalls,
                   replies, nextReplyId, platformAccounts, piiLastIndex,
                   now, pc, req, served, response, filterCalls, ingest>>

InitIngest ==
    /\ reviews = IngestSeedReviews
    /\ replies = {}
    /\ nextReplyId = 1
    /\ platformAccounts = IngestAccounts
    /\ piiLastIndex = FreshLastIndex
    /\ now = 1
    /\ pc = [p \in Procs |-> "idle"]
    /\ req = [p \in Procs |-> NoReq]
    /\ served = 0
    /\ response = NoResponse
    /\ filterCalls = << >>
    /\ ingest = [j \in Runs |-> NoRun]
    /\ hook = NoHook
    /\ adapterCalls = << >>
    /\ deliveries = << >>
    /\ metrics = {}
    /\ rollup = [k \in Rollups |-> NoRollup]
    /\ requestCounts = EmptyMap
    /\ limitCalls = << >>

NextIngest ==
    \/ \E j \in Runs :
        \/ IngestStart(j)
        \/ IngestRead(j)
        \/ IngestFind(j)
        \/ IngestWrite(j)
        \/ IngestFinish(j)
    \/ WebhookPOST
    \/ WebhookCreate

SpecIngest == InitIngest /\ [][NextIngest]_vars

(***************************************************************************)
(* Google delivering events to the webhook, some of them more than once    *)
(***************************************************************************)
\* the deliveries a run makes
MaxDeliveries == 2

\* POST for an event the schema accepts, with the event kept in the record
\* of what Google delivered
WebhookDeliver ==
    /\ hook.pc = "idle"
    /\ Len(deliveries) < MaxDeliveries
    /\ \E action \in HookActions, review \in HookReviews :
          /\ WebhookHandle(action, review)
          /\ deliveries' = Append(deliveries, [action |-> action, review |-> review])
    /\ UNCHANGED <<adapterCalls, metrics, rollup, requestCounts, limitCalls,
                   replies, nextReplyId, platformAccounts, piiLastIndex,
                   now, pc, req, served, response, filterCalls, ingest>>

NextHook ==
    \/ WebhookDeliver
    \/ WebhookCreate

SpecHook == InitIngest /\ [][NextHook]_vars

(***************************************************************************)
(* The metrics job: POST /api/jobs/metrics                                 *)
(***************************************************************************)
\* the days the clock of the job's model runs through
MaxDays == 2

\* milliseconds of an hour (1000 * 60 * 60) and of a day; a month has
\* DaysPerMonth days, and time 0 is the start of a month
HourMs == 1000 * 60 * 60
DayMs == 24 * HourMs
DaysPerMonth == 30

\* today.setHours(0, 0, 0, 0): the start of the day of t
StartOfDay(t) == t - (t % DayMs)
\* new Date(year, month, 1): the start of the month of t
StartOfMonth(t) ==
    LET day == t \div DayMs IN (day - (day % DaysPerMonth)) * DayMs

RECURSIVE GCD(_, _)
GCD(a, b) == IF b = 0 THEN a ELSE GCD(b, a % b)

\* the number n / d (d > 0), in lowest terms.  The numbers of JavaScript
\* are taken as exact.
Ratio(n, d) ==
    LET g == GCD(IF n < 0 THEN -n ELSE n, d)
    IN  IF n = 0 THEN [n |-> 0, d |-> 1] ELSE [n |-> n \div g, d |-> d \div g]

\* Math.round(n / d), d > 0: the nearest integer, halves upwards
MathRound(n, d) == (2 * n + d) \div (2 * d)

\* a Review row and a Reply row with the columns the job reads
MetricsReview(id, locationId, stars, createdAt) ==
    [id |-> id, locationId |-> locationId, platform |-> "GOOGLE",
     platformId |-> id, stars |-> stars, text |-> TextClean,
     authorName |-> "a", url |-> "u", updatedAt |-> createdAt,
     createdAt |-> createdAt, status |-> "NEEDS_REPLY"]
MetricsReply(id, reviewId, status, sentAt) ==
    [id |-> id, reviewId |-> reviewId, draftText |-> TextClean,
     finalText |-> IF status = "DRAFT" THEN Null ELSE TextClean,
     tone |-> "friendly", status |-> status,
     sentById |-> IF status = "SENT" THEN "u1" ELSE Null, sentAt |-> sentAt]

\* The stores the job's model starts from.  Day 1 is the day the model
\* starts in.  In the first store the owner's business has four reviews
\* of that day, rated 5, 3, 1 and 4, two of them answered after one and
\* two hours.  In the second it has a review of the day before, answered
\* two hours and a millisecond later, and one of the day, answered in the
\* millisecond it was created; the other business has one review.
StoreOfOneDay ==
    [reviews |-> {MetricsReview("a", "loc1", 5, DayMs + HourMs),
                  MetricsReview("b", "loc1", 3, DayMs + HourMs),
                  MetricsReview("c", "loc1", 1, DayMs + HourMs),
                  MetricsReview("d", "loc1", 4, DayMs + HourMs)},
     replies |-> {MetricsReply(1, "a", "SENT", DayMs + 2 * HourMs),
                  MetricsReply(2, "b", "SENT", DayMs + 3 * HourMs),
                  MetricsReply(3, "c", "DRAFT", NoDate)}]
StoreOfTwoDays ==
    [reviews |-> {MetricsReview("a", "loc1", 5, HourMs),
                  MetricsReview("b", "loc1", 3, DayMs + HourMs),
                  MetricsReview("e", "loc2", 4, DayMs + HourMs)},
     replies |-> {MetricsReply(1, "a", "SENT", 3 * HourMs + 1),
                  MetricsReply(2, "b", "SENT", DayMs + HourMs)}]
MetricsStores == {StoreOfOneDay, StoreOfTwoDays}

\* a review that arrives while the job's model runs
LateReview(t) == MetricsReview("z", "loc1", 2, t)

\* the implementations of the route in the repository
MetricsImpls == {"route", "part_005"}

\* prisma.business.findMany: the businesses in the order the loop visits them
MetricsBusinesses == <<"b1", "b2">>

\* include: locations: reviews where createdAt >= the start of the current
\* month, each with its reply: the rows of one business, as the columns the
\* job reads
GatheredReview(r) ==
    LET reply == {x \in replies : x.reviewId = r.id}
    IN  [id |-> r.id, stars |-> r.stars, createdAt |-> r.createdAt,
         replyStatus |-> IF reply = {} THEN "none"
                         ELSE (CHOOSE x \in reply : TRUE).status,
         sentAt |-> IF reply = {} THEN NoDate
                    ELSE (CHOOSE x \in reply : TRUE).sentAt]
Gather(businessId, t) ==
    {GatheredReview(r) : r \in {x \in reviews :
                                   /\ LocationBusiness[x.locationId] = businessId
                                   /\ x.createdAt >= StartOfMonth(t)}}

\* allReviews.reduce((sum, r) => sum + r.stars, 0)
RECURSIVE SumStars(_)
SumStars(S) ==
    IF S = {} THEN 0
    ELSE LET r == CHOOSE x \in S : TRUE IN r.stars + SumStars(S \ {r})

\* responseTimes.reduce((sum, time) => sum + time, 0) over the reviews of S
RECURSIVE SumTimes(_)
SumTimes(S) ==
    IF S = {} THEN 0
    ELSE LET r == CHOOSE x \in S : TRUE
         IN  (r.sentAt - r.createdAt) + SumTimes(S \ {r})

\* allReviews.filter(r => r.reply?.status === 'SENT')
ReviewsWithReplies(allReviews) == {r \in allReviews : r.replyStatus = "SENT"}

\* the reviews whose response time stays in responseTimes.  route.ts maps a
\* missing sentAt to null and filters with Boolean, which also drops a
\* time of 0; part_005 drops null only.
TimedReviews(impl, allReviews) ==
    {r \in ReviewsWithReplies(allReviews) :
        /\ r.sentAt # NoDate
        /\ impl = "route" => r.sentAt - r.createdAt # 0}

\* avgResponseTime: route.ts divides the mean by the milliseconds of an
\* hour; part_005 rounds the mean to a millisecond first
AvgResponseTime(impl, allReviews) ==
    LET timed == TimedReviews(impl, allReviews)
        count == Cardinality(timed)
    IN  IF count = 0 THEN Ratio(0, 1)
        ELSE IF impl = "route" THEN Ratio(SumTimes(timed), count * HourMs)
        ELSE Ratio(MathRound(SumTimes(timed), count), HourMs)

\* the values the job computes for one business
ComputeMetrics(impl, allReviews) ==
    LET totalReviews == Cardinality(allReviews)
    IN  [totalReviews |-> totalReviews,
         avgRating |-> IF totalReviews > 0
                       THEN Ratio(SumStars(allReviews), totalReviews)
                       ELSE Ratio(0, 1),
         coverage |-> IF totalReviews > 0
                      THEN Ratio(100 * Cardinality(ReviewsWithReplies(allReviews)),
                                 totalReviews)
                      ELSE Ratio(0, 1),
         avgResponseTime |-> AvgResponseTime(impl, allReviews)]

\* the row of a business and a date with the given values
MetricsRow(businessId, date, values) ==
    [businessId |-> businessId, date |-> date,
     coverage |-> values.coverage, avgResponseTime |-> values.avgResponseTime,
     totalReviews |-> values.totalReviews, avgRating |-> values.avgRating]

\* a write that inserts its row whatever the table holds
MetricsInsert(table, row) == table \cup {row}

\* prisma.metrics.upsert where businessId and date: the row of the key is
\* replaced, or the row is created
MetricsUpsert(table, row) ==
    {x \in table : ~(x.businessId = row.businessId /\ x.date = row.date)}
    \cup {row}

\* POST up to the loop: a request without the cron secret is answered 401;
\* when prisma.business.findMany throws, the outer catch answers 500;
\* otherwise the businesses are gathered and today is the start of the day
RollupStart(k) ==
    /\ rollup[k].pc = "idle"
    /\ \/ rollup' = [rollup EXCEPT ![k] = [NoRollup EXCEPT !.pc = "done",
                                                            !.status = 401]]
       \/ rollup' = [rollup EXCEPT ![k] = [NoRollup EXCEPT !.pc = "done",
                                                            !.status = 500]]
       \/ \E impl \in MetricsImpls :
            rollup' = [rollup EXCEPT ![k] =
                          [NoRollup EXCEPT
                              !.pc = "loop", !.impl = impl,
                              !.today = StartOfDay(now),
                              !.gathered = [b \in DOMAIN Business |-> Gather(b, now)],
                              !.bi = 1]]
    /\ UNCHANGED <<deliveries, reviews, replies, nextReplyId, platformAccounts, piiLastIndex,
                   now, pc, req, served, response, filterCalls, ingest, hook,
                   adapterCalls, metrics, requestCounts, limitCalls>>

\* a loop without the catch of the iteration: a failing upsert is thrown to
\* the outer catch, which answers 500
RollupBusinessAborts(k) ==
    /\ rollup[k].pc = "loop"
    /\ rollup[k].bi <= Len(MetricsBusinesses)
    /\ LET run == rollup[k]
           businessId == MetricsBusinesses[run.bi]
           values == ComputeMetrics(run.impl, run.gathered[businessId])
       IN  \/ /\ metrics' = MetricsUpsert(metrics,
                                          MetricsRow(businessId, run.today, values))
              /\ rollup' = [rollup EXCEPT ![k].bi = run.bi + 1,
                                          ![k].totalProcessed = run.totalProcessed + 1]
           \/ /\ rollup' = [rollup EXCEPT ![k].pc = "done", ![k].status = 500]
              /\ UNCHANGED metrics
    /\ UNCHANGED <<deliveries, reviews, replies, nextReplyId, platformAccounts, piiLastIndex,
                   now, pc, req, served, response, filterCalls, ingest, hook,
                   adapterCalls, requestCounts, limitCalls>>

\* one iteration of the loop over the businesses: the values are computed
\* and upserted and the business is counted; when the upsert throws, the
\* catch of the iteration logs it and the loop goes on
RollupBusiness(k) ==
    /\ rollup[k].pc = "loop"
    /\ rollup[k].bi <= Len(MetricsBusinesses)
    /\ LET run == rollup[k]
           businessId == MetricsBusinesses[run.bi]
           values == ComputeMetrics(run.impl, run.gathered[businessId])
       IN  \/ /\ metrics' = MetricsUpsert(metrics,
                                          MetricsRow(businessId, run.today, values))
              /\ rollup' = [rollup EXCEPT ![k].bi = run.bi + 1,
                                          ![k].totalProcessed = run.totalProcessed + 1]
           \/ /\ rollup' = [rollup EXCEPT ![k].bi = run.bi + 1]
              /\ UNCHANGED metrics
    /\ UNCHANGED <<deliveries, reviews, replies, nextReplyId, platformAccounts, piiLastIndex,
                   now, pc, req, served, response, filterCalls, ingest, hook,
                   adapterCalls, requestCounts, limitCalls>>

\* after the loop: the JOB_COMPLETED audit event and the 200 response
RollupFinish(k) ==
    /\ rollup[k].pc = "loop"
    /\ rollup[k].bi > Len(MetricsBusinesses)
    /\ rollup' = [rollup EXCEPT ![k].pc = "done", ![k].status = 200]
    /\ UNCHANGED <<deliveries, reviews, replies, nextReplyId, platformAccounts, piiLastIndex,
                   now, pc, req, served, response, filterCalls, ingest, hook,
                   adapterCalls, metrics, requestCounts, limitCalls>>

\* the environment: a review of the moment is created
ReviewArrives ==
    /\ \A r \in reviews : r.id # LateReview(now).id
    /\ reviews' = reviews \cup {LateReview(now)}
    /\ UNCHANGED <<deliveries, replies, nextReplyId, platformAccounts, piiLastIndex,
                   now, pc, req, served, response, filterCalls, ingest, hook,
                   adapterCalls, metrics, rollup, requestCounts, limitCalls>>

\* the environment: a day passes
DayPasses ==
    /\ now \div DayMs < MaxDays
    /\ now' = now + DayMs
    /\ UNCHANGED <<deliveries, reviews, replies, nextReplyId, platformAccounts, piiLastIndex,
                   pc, req, served, response, filterCalls, ingest, hook,
                   adapterCalls, metrics, rollup, requestCounts, limitCalls>>

\* the store of one of MetricsStores, at noon of day 1
InitMetrics ==
    /\ \E store \in MetricsStores :
          /\ reviews = store.reviews
          /\ replies = store.replies
    /\ nextReplyId = 4
    /\ platformAccounts = IngestAccounts
    /\ piiLastIndex = FreshLastIndex
    /\ now = DayMs + 12 * HourMs
    /\ pc = [p \in Procs |-> "idle"]
    /\ req = [p \in Procs |-> NoReq]
    /\ served = 0
    /\ response = NoResponse
    /\ filterCalls = << >>
    /\ ingest = [j \in Runs |-> NoRun]
    /\ hook = NoHook
    /\ adapterCalls = << >>
    /\ deliveries = << >>
    /\ metrics = {}
    /\ rollup = [k \in Rollups |-> NoRollup]
    /\ requestCounts = EmptyMap
    /\ limitCalls = << >>

NextMetrics ==
    \/ \E k \in Rollups :
        \/ RollupStart(k)
        \/ RollupBusiness(k)
        \/ RollupFinish(k)
    \/ ReviewArrives
    \/ DayPasses

SpecMetrics == InitMetrics /\ [][NextMetrics]_vars

(***************************************************************************)
(* The rate limiter: rateLimit(identifier)                                 *)
(***************************************************************************)
\* the calls a run makes, and the time its clock runs to
MaxLimitCalls == 4
MaxLimitTime == 6

\* rateLimitConfig, scaled down: the requests of a window and its length
RateLimitMaxRequests == 2
RateLimitWindowMs == 2

\* what getRateLimitIdentifier returns: the callers' addresses
Identifiers == {"ip1", "ip2"}

\* a limit that is reached one request late
LimitExceeded(count) == count > RateLimitMaxRequests

\* current.count >= rateLimitConfig.maxRequests
LimitReached(count) == count >= RateLimitMaxRequests

\* the clean-up loop: the entries whose resetTime is before windowStart are
\* deleted
CleanUp(counts, t) ==
    [k \in {i \in DOMAIN counts :
               ~(counts[i].resetTime < t - RateLimitWindowMs)} |-> counts[k]]

\* requestCounts.set(identifier, entry)
MapSet(counts, identifier, entry) ==
    [k \in DOMAIN counts \cup {identifier} |->
        IF k = identifier THEN entry ELSE counts[k]]

\* a limiter whose denied calls push the window's end forward
rateLimitExtending(counts, identifier, t) ==
    LET cleaned == CleanUp(counts, t)
        fresh == [count |-> 1, resetTime |-> t + RateLimitWindowMs]
        allowed == [success |-> TRUE,
                    remaining |-> RateLimitMaxRequests - 1,
                    resetTime |-> t + RateLimitWindowMs]
    IN  IF identifier \notin DOMAIN cleaned
        THEN [counts |-> MapSet(cleaned, identifier, fresh), result |-> allowed]
        ELSE LET current == cleaned[identifier]
             IN  IF current.resetTime < t
                 THEN [counts |-> MapSet(cleaned, identifier, fresh),
                       result |-> allowed]
                 ELSE IF LimitReached(current.count)
                 THEN [counts |-> MapSet(cleaned, identifier,
                                         [current EXCEPT
                                             !.resetTime = t + RateLimitWindowMs]),
                       result |-> [success |-> FALSE, remaining |-> 0,
                                   resetTime |-> t + RateLimitWindowMs]]
                 ELSE [counts |-> MapSet(cleaned, identifier,
                                         [current EXCEPT !.count = @ + 1]),
                       result |-> [success |-> TRUE,
                                   remaining |-> RateLimitMaxRequests
                                                   - (current.count + 1),
                                   resetTime |-> current.resetTime]]

\* rateLimit(identifier) at time t over the map counts: the map it leaves
\* and the result it returns
rateLimit(counts, identifier, t) ==
    LET cleaned == CleanUp(counts, t)
        fresh == [count |-> 1, resetTime |-> t + RateLimitWindowMs]
        allowed == [success |-> TRUE,
                    remaining |-> RateLimitMaxRequests - 1,
                    resetTime |-> t + RateLimitWindowMs]
    IN  IF identifier \notin DOMAIN cleaned
        THEN [counts |-> MapSet(cleaned, identifier, fresh), result |-> allowed]
        ELSE LET current == cleaned[identifier]
             IN  IF current.resetTime < t
                 THEN [counts |-> MapSet(cleaned, identifier, fresh),
                       result |-> allowed]
                 ELSE IF LimitReached(current.count)
                 THEN [counts |-> cleaned,
                       result |-> [success |-> FALSE, remaining |-> 0,
                                   resetTime |-> current.resetTime]]
                 ELSE [counts |-> MapSet(cleaned, identifier,
                                         [current EXCEPT !.count = @ + 1]),
                       result |-> [success |-> TRUE,
                                   remaining |-> RateLimitMaxRequests
                                                   - (current.count + 1),
                                   resetTime |-> current.resetTime]]

\* one call rateLimit(identifier): the map is updated and the call and its
\* result are recorded
LimiterCall ==
    /\ Len(limitCalls) < MaxLimitCalls
    /\ \E identifier \in Identifiers :
        LET out == rateLimit(requestCounts, identifier, now)
        IN  /\ requestCounts' = out.counts
            /\ limitCalls' = Append(limitCalls,
                                    [identifier |-> identifier, t |-> now,
                                     success |-> out.result.success,
                                     remaining |-> out.result.remaining,
                                     resetTime |-> out.result.resetTime])
    /\ UNCHANGED <<deliveries, reviews, replies, nextReplyId, platformAccounts, piiLastIndex,
                   now, pc, req, served, response, filterCalls, ingest, hook,
                   adapterCalls, metrics, rollup>>

\* the environment: Date.now() advances
LimiterTick ==
    /\ now < MaxLimitTime
    /\ now' = now + 1
    /\ UNCHANGED <<deliveries, reviews, replies, nextReplyId, platformAccounts, piiLastIndex,
                   pc, req, served, response, filterCalls, ingest, hook,
                   adapterCalls, metrics, rollup, requestCounts, limitCalls>>

NextLimiter == LimiterCall \/ LimiterTick

SpecLimiter == Init /\ [][NextLimiter]_vars

(***************************************************************************)
(* POST /api/replies over a store of two tenants                           *)
(***************************************************************************)
\* a review of each owner's location; the first has a draft for which the
\* completion came back empty (generateReply: content || "")
SendSeedReviews ==
    {[id |-> "r1", locationId |-> "loc1", platform |-> "GOOGLE",
      platformId |-> "g-1", stars |-> 4, text |-> TextClean,
      authorName |-> "Emily", url |-> "maps/3", updatedAt |-> 0,
      status |-> "NEEDS_REPLY"],
     [id |-> "r4", locationId |-> "loc2", platform |-> "GOOGLE",
      platformId |-> "g-4", stars |-> 5, text |-> TextClean,
      authorName |-> "Sarah", url |-> "maps/4", updatedAt |-> 0,
      status |-> "NEEDS_REPLY"]}
SendSeedReplies ==
    {[id |-> 1, reviewId |-> "r1", draftText |-> << >>,
      finalText |-> Null, tone |-> "professional", status |-> "DRAFT",
      sentById |-> Null, sentAt |-> NoDate]}
\* Location.platformAccounts: the first location's Google account is stored
\* under its platform key, as the ingestion job reads it, or at the top
\* level, as the send reads it
SendAccounts ==
    {[loc1 |-> [google |-> CfgGoogleConnected], loc2 |-> CfgFlatExpiring],
     [loc1 |-> CfgFlatExpiring, loc2 |-> CfgFlatExpiring]}

InitSend ==
    /\ reviews = SendSeedReviews
    /\ replies = SendSeedReplies
    /\ nextReplyId = 2
    /\ platformAccounts \in SendAccounts
    /\ piiLastIndex = FreshLastIndex
    /\ now = 1
    /\ pc = [p \in Procs |-> "idle"]
    /\ req = [p \in Procs |-> NoReq]
    /\ served = 0
    /\ response = NoResponse
    /\ filterCalls = << >>
    /\ ingest = [j \in Runs |-> NoRun]
    /\ hook = NoHook
    /\ adapterCalls = << >>
    /\ deliveries = << >>
    /\ metrics = {}
    /\ rollup = [k \in Rollups |-> NoRollup]
    /\ requestCounts = EmptyMap
    /\ limitCalls = << >>

SpecSend == InitSend /\ [][Next]_vars

(***************************************************************************)
(* Properties of the reply state machine                                   *)
(***************************************************************************)
\* the status of the reply with this id in a Reply table
StatusIn(table, id) == (CHOOSE x \in table : x.id = id).status

\* C1: once a Reply's status is SENT it stays SENT: no step of any request
\* changes the status of a reply that is SENT.
C1_SentStaysSent ==
    [][\A x \in replies :
          x.status = "SENT" => StatusIn(replies', x.id) = "SENT"]_vars

\* C2: once a Reply's status is FAILED it stays FAILED: no step of any
\* request changes the status of a reply that is FAILED.
C2_FailedStaysFailed ==
    [][\A x \in replies :
          x.status = "FAILED" => StatusIn(replies', x.id) = "FAILED"]_vars

\* C3: in every reachable state, whatever the interleaving of concurrent
\* generate requests, every Review has at most one Reply row.
C3_AtMostOneReplyPerReview ==
    \A r \in reviews : Cardinality({x \in replies : x.reviewId = r.id}) <= 1

\* two generate requests for one review both passed the existing-reply
\* check; one inserted its reply and the insert of the other was rejected
C3_RaceRejected ==
    /\ response.action = "generate"
    /\ response.error = "UniqueConstraint"
    /\ \E x \in replies : x.reviewId = "r2" /\ x.status = "DRAFT"

\* C4: the generate request whose insert the unique index rejects answers
\* ReplyAlreadyExists (409), not an internal error.
C4_RaceLoserGetsConflict ==
    response.error = "UniqueConstraint" => response.status = 409

\* C5: a generate on a review of the caller that has a Reply answers
\* ReplyAlreadyExists (409) at the existing-reply check, without a call of
\* the AI generation and without a change of the Reply table.
C5_GenerateOnRepliedReview ==
    [][\A p \in Procs :
          (/\ pc[p] = "gen_findReview"
           /\ pc'[p] # "gen_findReview"
           /\ \E r \in reviews : /\ r.id = req[p].reviewId
                                  /\ OwnerOfLocation(r.locationId) = req[p].userId
           /\ \E x \in replies : x.reviewId = req[p].reviewId)
          => /\ pc'[p] = "idle"
             /\ response'.action = "generate"
             /\ response'.status = 409
             /\ ~response'.aiCalled
             /\ replies' = replies]_vars

\* a generate on the seeded review that has a reply was answered 409, no
\* AI call made, the seeded reply as it was
C5_ConflictAnswered ==
    /\ response.action = "generate"
    /\ response.status = 409
    /\ ~response.aiCalled
    /\ SeedReplies \subseteq replies

\* C6: no state a read can observe has a Reply SENT while its Review is not
\* AUTO_SENT.
C6_SentWithAutoSent ==
    \A x \in replies :
        x.status = "SENT" =>
            \A r \in reviews : r.id = x.reviewId => r.status = "AUTO_SENT"

\* the precedence explicit > stored finalText > draftText
PrecedenceText(explicit, reply) ==
    IF TruthyText(explicit) THEN explicit
    ELSE IF TruthyText(reply.finalText) THEN reply.finalText
    ELSE reply.draftText

\* C7: the text a send resolves for postReply is the request's explicit
\* finalText, else the reply's stored finalText, else its draftText.
C7_SendTextPrecedence ==
    [][\A p \in Procs :
          (pc[p] = "upd_findReply" /\ pc'[p] = "send_post")
          => req'[p].text = PrecedenceText(req[p].finalText,
                                           ReplyById(req[p].replyId))]_vars

\* C8: every text an adapter's postReply accepted passes the policy filter.
C8_PostedTextPassesPolicy ==
    \A p \in Procs :
        req[p].postResult = "true" =>
            filterPolicy(req[p].text, FreshLastIndex).passed

\* C9: two consecutive calls of filterPolicy on the same text return the
\* same passed and the same violations, whatever calls came before.
C9_FilterDeterministic ==
    \A i \in 1..(Len(filterCalls) - 1) :
        filterCalls[i].text = filterCalls[i + 1].text =>
            /\ filterCalls[i].passed = filterCalls[i + 1].passed
            /\ filterCalls[i].violations = filterCalls[i + 1].violations

\* the text holds a match of one of the four PII patterns
ContainsPII(text) ==
    \E k \in 1..NumPatterns : RegExpTest(PII_PATTERNS[k], text, 0).matched

\* C10: every generate whose AI text contains PII has flagged = true and a
\* PII violation, whatever generate calls came before.
C10_PIIAlwaysFlagged ==
    \A p \in Procs :
        (pc[p] = "gen_create" /\ ContainsPII(req[p].aiResponse.reply)) =>
            /\ req[p].aiResponse.flagged
            /\ \E i \in DOMAIN req[p].aiResponse.reason :
                   req[p].aiResponse.reason[i] = PII_MESSAGE

(***************************************************************************)
(* Properties of approve                                                   *)
(***************************************************************************)
\* actions of a body that asks for an approve: "approve", and "update",
\* the README's name of it
ApproveActions == {"approve", "update"}

\* the step of p that answers a request to approve: POST answering it at
\* once, or the approve branch of updateReplyAction
AnswersApprove(p) ==
    /\ pc'[p] = "idle"
    /\ response'.action \in ApproveActions
    /\ \/ pc[p] = "idle" /\ served' = served + 1
       \/ pc[p] = "upd_findReply" /\ req[p].action \in ApproveActions

C17_ApproveThroughPOST ==
    [][\A p \in Procs : \A x \in replies :
          (/\ AnswersApprove(p)
           /\ x.id = response'.replyId
           /\ x.status = "DRAFT"
           /\ OwnerOfLocation(ReviewById(x.reviewId).locationId)
                 = response'.userId)
          => /\ response'.status = 200
             /\ \E y \in replies' :
                   /\ y.id = x.id
                   /\ y.status = "APPROVED"
                   /\ y.finalText = IF TruthyText(response'.finalText)
                                     THEN response'.finalText
                                     ELSE x.draftText]_vars

(***************************************************************************)
(* Properties of a send that fails                                         *)
(***************************************************************************)
\* p is in a send whose postReply returned false or threw
InFailedSend(p) ==
    /\ pc[p] \in {"send_markFailed", "send_catch"}
    /\ req[p].postResult \in {"false", "throw"}

\* C18: when postReply returns false or throws, the send ends with the
\* reply FAILED, no step of the send changes the review, and the failure
\* is answered by the send itself with 500 "Failed to send reply" (it is
\* not rethrown to POST).
C18_FailedSendMarksFailed ==
    [][\A p \in Procs :
          /\ (pc[p] = "send_post" /\ pc'[p] # pc[p])
             => reviews' = reviews /\ replies' = replies
          /\ (InFailedSend(p) /\ pc'[p] # pc[p])
             => /\ reviews' = reviews
                /\ \E y \in replies' : y.id = req[p].replyId
                                        /\ y.status = "FAILED"
                /\ pc'[p] = "idle"
                /\ response'.action = "send"
                /\ response'.replyId = req[p].replyId
                /\ response'.status = 500
                /\ response'.error = Null]_vars

\* a send of a reply that was DRAFT has been answered 500 after postReply
\* returned false: the reply is FAILED and its review still needs a reply
C18_SendFailed ==
    /\ response.action = "send"
    /\ response.status = 500
    /\ response.audit # "none"
    /\ \E x \in replies :
          /\ x.id = response.replyId
          /\ x.status = "FAILED"
          /\ ReviewById(x.reviewId).status = "NEEDS_REPLY"

(***************************************************************************)
(* Invariants of the Reply row                                             *)
(***************************************************************************)
\* C19: in every reachable state, a reply has sentAt set if and only if
\* its status is SENT.
C19_SentAtIffSent ==
    \A x \in replies : (x.sentAt # NoDate) <=> (x.status = "SENT")

\* C20: in every reachable state, a reply has finalText set if and only if
\* its status is APPROVED, SENT or FAILED (which only a send attempt
\* gives): a DRAFT reply has no finalText, and a reply a send attempt
\* moved to FAILED has a finalText.
C20_FinalTextIffDecided ==
    \A x \in replies :
        (x.finalText # Null) <=> (x.status \in {"APPROVED", "SENT", "FAILED"})

(***************************************************************************)
(* Properties of the Google adapter                                        *)
(***************************************************************************)
\* the configuration passes the adapter's guard
HasAdapterFields(config) ==
    /\ TruthyStr(config, "accessToken")
    /\ TruthyStr(config, "accountId")
    /\ TruthyStr(config, "locationId")

\* C25: for readReviews and postReply alike, a call with an expired token
\* and no refresh token fails with an error (a throw: it does not call the
\* platform and does not return the ordinary false), and a call with an
\* expired token and a refresh token that calls the platform does so with
\* the new token, not with the expired one.
C25_ExpiredTokenHandled ==
    \A i \in DOMAIN adapterCalls :
        LET call == adapterCalls[i]
        IN  (HasAdapterFields(call.config) /\ TokenExpired(call.config, call.t))
            => IF TruthyStr(call.config, "refreshToken")
               THEN call.outcome.called
                    => /\ call.outcome.token = RefreshedToken
                       /\ call.outcome.token # call.config.accessToken
               ELSE /\ call.outcome.result = "throw"
                    /\ ~call.outcome.called

(***************************************************************************)
(* Properties of the send's platform call                                  *)
(***************************************************************************)
\* the keys of a location's platformAccounts under which the ingestion job
\* finds the configuration of a platform
PlatformKeys(loc, platform) ==
    {k \in DOMAIN platformAccounts[loc] :
        /\ IsObjectEntry(k)
        /\ k \in DOMAIN PlatformKeyUpper
        /\ PlatformKeyUpper[k] = platform}

\* C21: a send passes to postReply the record of the location's
\* platformAccounts for the review's platform, the one the ingestion job
\* passes to isConnected and readReviews; when that record is connected
\* (and has no expiry) the call reaches the platform post: it does not
\* throw or return false.
C21_SendUsesPlatformAccount ==
    \A p \in Procs :
        pc[p] \in {"send_post", "send_markSent", "send_markFailed", "send_catch"}
        => \A k \in PlatformKeys(req[p].review.locationId, req[p].review.platform) :
              LET account == platformAccounts[req[p].review.locationId][k]
              IN  (/\ IsConnected(req[p].review.platform, account)
                   /\ ~TruthyNum(account, "expiresAt"))
                  => /\ req[p].config = account
                     /\ pc[p] # "send_post" => req[p].postResult = "true"

\* C22: a send without explicit text of a reply whose finalText and
\* draftText are both empty is answered 400 "No text to send"; the adapter
\* is not called and the reply and its review stay as they are.
C22_NoTextToSend ==
    [][\A p \in Procs : \A x \in replies :
          (/\ pc[p] = "upd_findReply"
           /\ pc'[p] # pc[p]
           /\ req[p].action = "send"
           /\ ~TruthyText(req[p].finalText)
           /\ x.id = req[p].replyId
           /\ OwnerOfLocation(ReviewById(x.reviewId).locationId) = req[p].userId
           /\ ~TruthyText(x.draftText)
           /\ ~TruthyText(x.finalText))
          => /\ pc'[p] = "idle"
             /\ response'.action = "send"
             /\ response'.status = 400
             /\ replies' = replies
             /\ reviews' = reviews]_vars

\* the owner's send of the empty draft, without text, has been answered 400
C22_EmptySendAnswered ==
    /\ response.action = "send"
    /\ response.status = 400
    /\ ~TruthyText(response.finalText)
    /\ \E x \in replies :
          /\ x.id = response.replyId
          /\ OwnerOfLocation(ReviewById(x.reviewId).locationId) = response.userId
          /\ ~TruthyText(x.draftText)
          /\ ~TruthyText(x.finalText)
          /\ x.status = "DRAFT"

(***************************************************************************)
(* Tenant isolation                                                        *)
(***************************************************************************)
\* the owner of the business a reply belongs to
OwnerOfReply(x) == OwnerOfLocation(ReviewById(x.reviewId).locationId)

\* the rows of the two tables that do not belong to user
ForeignReplies(table, allReviews, user) ==
    {x \in table : \A r \in allReviews :
                      r.id = x.reviewId => OwnerOfLocation(r.locationId) # user}
ForeignReviews(table, user) ==
    {r \in table : OwnerOfLocation(r.locationId) # user}

\* the request names a review (generate) or a reply (approve, send) of a
\* business the caller does not own
NamesForeignRow(action, user, reviewId, replyId) ==
    IF action = "generate"
    THEN \E r \in ForeignReviews(reviews, user) : r.id = reviewId
    ELSE \E x \in ForeignReplies(replies, reviews, user) : x.id = replyId

\* C23: no step of a generate, approve or send request of caller U creates
\* or changes a reply or a review of a business U does not own, and a
\* request that names such a row is answered not-found (404), with the
\* store unchanged and neither the AI nor the adapter called.
C23_TenantIsolation ==
    [][\A p \in Procs :
          /\ (pc[p] # "idle" /\ pc'[p] # pc[p])
             => /\ ForeignReplies(replies', reviews', req[p].userId)
                     = ForeignReplies(replies, reviews, req[p].userId)
                /\ ForeignReviews(reviews', req[p].userId)
                     = ForeignReviews(reviews, req[p].userId)
          /\ (/\ pc[p] \in {"gen_findReview", "upd_findReply"}
              /\ pc'[p] # pc[p]
              /\ NamesForeignRow(req[p].action, req[p].userId,
                                 req[p].reviewId, req[p].replyId))
             => /\ pc'[p] = "idle"
                /\ response'.status = 404
                /\ ~response'.aiCalled
                /\ replies' = replies /\ reviews' = reviews
          /\ (/\ pc[p] = "idle" /\ pc'[p] = "idle" /\ served' = served + 1
              /\ response'.action = "approve"
              /\ NamesForeignRow("approve", response'.userId, Null,
                                 response'.replyId))
             => /\ response'.status = 404
                /\ replies' = replies /\ reviews' = reviews]_vars

(***************************************************************************)
(* Properties of generate                                                  *)
(***************************************************************************)
\* C24: the create of a generate stores the reply as DRAFT, with the
\* generated text as its draft, whether the generation result is flagged or
\* not, and the request is answered 200.
C24_FlaggedDraftStored ==
    [][\A p \in Procs :
          (/\ pc[p] = "gen_create"
           /\ pc'[p] # pc[p]
           /\ ~ReplyInsertRejected(req[p].reviewId))
          => /\ \E y \in replies' \ replies :
                   /\ replies' = replies \cup {y}
                   /\ y.reviewId = req[p].reviewId
                   /\ y.status = "DRAFT"
                   /\ y.draftText = req[p].aiResponse.reply
             /\ response'.status = 200
             /\ response'.flagged = req[p].aiResponse.flagged]_vars

\* a generate whose result was flagged has been answered 200, and its draft
\* is in the table
C24_FlaggedDraftInTable ==
    /\ response.action = "generate"
    /\ response.status = 200
    /\ response.flagged
    /\ \E x \in replies : x.status = "DRAFT" /\ x.draftText = TextEmail

(***************************************************************************)
(* Properties of the stored credentials                                    *)
(***************************************************************************)
\* C26: when a send in which the adapter refreshed an expired token has
\* been answered 200, the location's stored account holds the refreshed
\* token and is no longer expired, so that the next operation does not
\* refresh again.
C26_RefreshedTokenStored ==
    [][\A p \in Procs :
          (/\ pc[p] = "send_review"
           /\ pc'[p] = "idle"
           /\ req[p].refreshed
           /\ response'.status = 200)
          => LET account == platformAccounts'[req[p].review.locationId]
             IN  /\ account.accessToken = RefreshedToken
                 /\ ~TokenExpired(account, now')]_vars

(***************************************************************************)
(* Properties of the metrics job                                           *)
(***************************************************************************)
\* the step of run k that upserts the row of a business
Upserts(k) ==
    /\ rollup[k].pc = "loop"
    /\ rollup'[k].totalProcessed = rollup[k].totalProcessed + 1

\* the business of that step and the reviews the run gathered for it
UpsertBusiness(k) == MetricsBusinesses[rollup[k].bi]
UpsertReviews(k) == rollup[k].gathered[UpsertBusiness(k)]

\* the rows of a key in a table
RowsOfDay(table, businessId, date) ==
    {x \in table : x.businessId = businessId /\ x.date = date}

\* the formulas of the rollup over a set of reviews: the count, the mean
\* of the stars, 100 * SENT / count, and the mean of sentAt - createdAt in
\* hours over the reviews with a SENT reply; 0 where there is nothing to
\* divide by
ReferenceMetrics(S) ==
    LET sent == {r \in S : r.replyStatus = "SENT"}
    IN  [totalReviews |-> Cardinality(S),
         avgRating |-> IF S = {} THEN Ratio(0, 1)
                       ELSE Ratio(SumStars(S), Cardinality(S)),
         coverage |-> IF S = {} THEN Ratio(0, 1)
                      ELSE Ratio(100 * Cardinality(sent), Cardinality(S)),
         avgResponseTime |-> IF sent = {} THEN Ratio(0, 1)
                             ELSE Ratio(SumTimes(sent), Cardinality(sent) * HourMs)]

\* C27: the values the job stores for a business are the reference
\* formulas over the reviews it gathered for that business.
C27_StoredValuesAreReference ==
    [][\A k \in Rollups :
          Upserts(k)
          => MetricsRow(UpsertBusiness(k), rollup[k].today,
                        ReferenceMetrics(UpsertReviews(k))) \in metrics']_vars

\* C28: the row the job stores for a business and today aggregates the
\* reviews of the business created today, and no review of an earlier day.
C28_OnlyReviewsOfToday ==
    [][\A k \in Rollups :
          Upserts(k)
          => \E x \in RowsOfDay(metrics', UpsertBusiness(k), rollup[k].today) :
                x.totalReviews =
                    Cardinality({r \in UpsertReviews(k) :
                                    StartOfDay(r.createdAt) = rollup[k].today})]_vars

\* C29: whatever runs there have been, the table holds at most one row per
\* business and date, and after an upsert the row of its key is the one
\* row of that key, with the values the run computed, the rows of the
\* other keys being as they were.
C29_OneRowPerBusinessAndDay ==
    [][/\ \A x, y \in metrics' :
              (x.businessId = y.businessId /\ x.date = y.date) => x = y
       /\ \A k \in Rollups :
              Upserts(k)
              => /\ RowsOfDay(metrics', UpsertBusiness(k), rollup[k].today)
                      = {MetricsRow(UpsertBusiness(k), rollup[k].today,
                                    ComputeMetrics(rollup[k].impl,
                                                   UpsertReviews(k)))}
                 /\ metrics' \ RowsOfDay(metrics', UpsertBusiness(k), rollup[k].today)
                      = metrics \ RowsOfDay(metrics, UpsertBusiness(k), rollup[k].today)]_vars

\* two runs of the same day have completed, having gathered different
\* reviews for the first business, and the table holds one row for it
C29_SecondRunOverwrote ==
    /\ \A k \in Rollups : /\ rollup[k].pc = "done"
                            /\ rollup[k].status = 200
                            /\ rollup[k].totalProcessed = Len(MetricsBusinesses)
    /\ rollup["k1"].today = rollup["k2"].today
    /\ rollup["k1"].gathered["b1"] # rollup["k2"].gathered["b1"]
    /\ Cardinality(RowsOfDay(metrics, "b1", rollup["k1"].today)) = 1

(***************************************************************************)
(* Properties of the rate limiter                                          *)
(***************************************************************************)
\* call i created the entry of its identifier: a window starts at its time
StartsWindow(i) ==
    /\ limitCalls[i].success
    /\ limitCalls[i].resetTime = limitCalls[i].t + RateLimitWindowMs

\* call j is a call of the identifier of call i in the window call i started
InWindowOf(i, j) ==
    /\ j >= i
    /\ limitCalls[j].identifier = limitCalls[i].identifier
    /\ limitCalls[j].t <= limitCalls[i].t + RateLimitWindowMs

WritesReview(j) == ingest[j].pc = "write" /\ ingest'[j].pc # "write"
\* ... and the store performed the write
WroteReview(j) == WritesReview(j) /\ ingest'[j].last \in {"created", "updated"}
\* the platform of the entry run j is at
RunPlatform(j) == PlatformKeyUpper[RunKey(ingest[j])]
\* the rows of a Review table with the key (platform, platformId)
RowsOfKey(table, platform, platformId) ==
    {x \in table : x.platform = platform /\ x.platformId = platformId}

\* C11: every ingestion of a ReviewDraft leaves exactly one Review row for
\* its key (platform, platformId), holding the draft's stars, text, author
\* and url, and it increments ingestedCount exactly when no row had the key
\* before: so of two ingestions of the same draft only the first counts and
\* the row holds the fields of the second.
C11_IngestIdempotent ==
    [][\A j \in Runs :
          WroteReview(j) =>
            LET d == Head(ingest[j].queue)
                after == RowsOfKey(reviews', RunPlatform(j), d.platformId)
                first == RowsOfKey(reviews, RunPlatform(j), d.platformId) = {}
            IN  /\ Cardinality(after) = 1
                /\ \A x \in after : /\ x.stars = d.stars
                                    /\ x.text = d.text
                                    /\ x.authorName = d.authorName
                                    /\ x.url = d.url
                /\ ingest'[j].totalIngested =
                      ingest[j].totalIngested + (IF first THEN 1 ELSE 0)]_vars

\* C12: the Review key is (platform, platformId): after the ingestion of a
\* draft of a platform a row with that platform and platformId exists, and
\* no row of another platform was modified.
C12_KeyIsPlatformAndId ==
    [][\A j \in Runs :
          WroteReview(j) =>
            LET d == Head(ingest[j].queue)
            IN  /\ RowsOfKey(reviews', RunPlatform(j), d.platformId) # {}
                /\ \A x \in reviews :
                      x.platform # RunPlatform(j) => x \in reviews']_vars

\* C13: under every interleaving of two ingestion runs (and the webhook),
\* the store never holds two Review rows with the same (platform,
\* platformId).
C13_OneRowPerKey ==
    \A x \in reviews :
        Cardinality(RowsOfKey(reviews, x.platform, x.platformId)) = 1

\* two runs read the same new review and both found no row for it; one
\* created the row and the insert of the other was rejected
C13_RunsRaced ==
    /\ ingest["j1"].last = "created"
    /\ ingest["j2"].last = "rejected"
    /\ Cardinality(RowsOfKey(reviews, "GOOGLE", "g-9")) = 1

\* C14: no step of the ingestion job or of the webhook changes the status
\* of a Review that exists.
C14_ResyncKeepsStatus ==
    [][\A x \in reviews :
          \A y \in reviews' : y.id = x.id => y.status = x.status]_vars

\* the answered review r1 was re-synced: it holds the listed contents and
\* its status is AUTO_SENT as before
C14_AnsweredReviewResynced ==
    \E j \in Runs :
        /\ ingest[j].last = "updated"
        /\ \E x \in reviews : /\ x.id = "r1"
                              /\ x.text = TextEdited
                              /\ x.updatedAt = now
                              /\ x.status = "AUTO_SENT"

\* the entries of the locations' platformAccounts, as (location, entry)
\* positions, and their order in the loops
EntryPositions ==
    {<<li, pi>> : li \in 1..Len(IngestLocations), pi \in 1..Len(EntryKeys)}
        \cap {e \in Nat \X Nat :
                e[2] <= Len(ObjectEntries(platformAccounts[IngestLocations[e[1]]]))}
EntryKeyAt(e) == ObjectEntries(platformAccounts[IngestLocations[e[1]]])[e[2]]
Before(a, b) == a[1] < b[1] \/ (a[1] = b[1] /\ a[2] < b[2])
\* entries that name no registered adapter: getAdapter throws for them
UnknownEntries ==
    {e \in EntryPositions :
        /\ EntryKeyAt(e) \notin ScalarKeys
        /\ PlatformKeyUpper[EntryKeyAt(e)] \notin AdapterNames}
\* entries whose adapter is connected: readReviews is called for them
ConnectedEntries ==
    {e \in EntryPositions :
        /\ EntryKeyAt(e) \notin ScalarKeys
        /\ PlatformKeyUpper[EntryKeyAt(e)] \in AdapterNames
        /\ IsConnected(PlatformKeyUpper[EntryKeyAt(e)],
                       platformAccounts[IngestLocations[e[1]]][EntryKeyAt(e)])}

\* C15: a failure of one item (a readReviews call, a review write, an entry
\* without adapter) adds exactly one to errorCount, changes neither the
\* store nor ingestedCount, and the run goes on with the very item it would
\* process next without the failure: the next review of the queue, else the
\* next entry with a connected adapter, else the completion record, which is
\* returned with success.
C15_FailureCountedRunGoesOn ==
    [][\A j \in Runs :
          LET run    == ingest[j]
              after  == ingest'[j]
              failed == after.last \in {"readFailed", "failed", "rejected"}
              one    == IF failed THEN 1 ELSE 0
              cur    == <<run.li, run.pi>>
              later  == {e \in ConnectedEntries : Before(cur, e)}
              target == CHOOSE e \in later : \A f \in later : f = e \/ Before(e, f)
              passed == {e \in UnknownEntries :
                            Before(cur, e) /\ (later = {} \/ Before(e, target))}
              stays  == \/ run.pc = "read" /\ ~failed /\ after.queue # << >>
                        \/ run.pc = "write" /\ Len(run.queue) > 1
          IN  /\ (run.pc \in {"read", "write"} /\ after # run) =>
                    /\ after.status = 0
                    /\ failed => /\ reviews' = reviews
                                 /\ after.totalIngested = run.totalIngested
                    /\ IF stays
                       THEN /\ after.pc = "find"
                            /\ <<after.li, after.pi>> = cur
                            /\ after.totalErrors = run.totalErrors + one
                            /\ run.pc = "write" => after.queue = Tail(run.queue)
                       ELSE /\ after.totalErrors =
                                  run.totalErrors + one + Cardinality(passed)
                            /\ IF later = {} THEN after.pc = "finish"
                               ELSE /\ after.pc = "read"
                                    /\ <<after.li, after.pi>> = target
              /\ (run.pc = "finish" /\ after # run) =>
                    /\ after.pc = "done"
                    /\ after.status = 200
                    /\ after.totalErrors = run.totalErrors
                    /\ after.totalIngested = run.totalIngested]_vars

\* a run whose write of a review failed went on: it counted that failure
\* and the entry without adapter, visited the second location and returned
\* its completion record
C15_RunCompletedAfterFailure ==
    \E j \in Runs :
        /\ ingest[j].pc = "done"
        /\ ingest[j].status = 200
        /\ ingest[j].totalErrors = 2
        /\ ingest[j].totalIngested = 0
        /\ ingest[j].li > Len(IngestLocations)
(***************************************************************************)
(* Properties of the audit sink                                            *)
(***************************************************************************)
\* the places of the handler where an audit event is written, and the
\* status the handler answers after each
AuditedSteps == {"gen_create", "upd_find", "send_review", "send_markFailed"}
AuditedStatus(at) == IF at = "send_markFailed" THEN 500 ELSE 200

HasCrisisKeyword(text) ==
    \E k \in 1..Len(CRISIS_KEYWORDS) :
        \E s \in 0..(Len(text) - Len(CRISIS_KEYWORDS[k].chars)) :
            \A j \in 1..Len(CRISIS_KEYWORDS[k].chars) :
                LowerChar(text[s + j]) = CRISIS_KEYWORDS[k].chars[j]

\* the calls of generateReply made so far
GenerateCalls == {filterCalls[i] : i \in 1..Len(filterCalls)}

\* C32: isCrisis of the generation result is (the review text holds a
\* crisis keyword, case-insensitively) or (the caller's crisis flag); the
\* text the model returned plays no part in it.
C32_CrisisFromReviewTextOrFlag ==
    \A c \in GenerateCalls :
        c.isCrisis = (HasCrisisKeyword(c.reviewText) \/ c.callerCrisis)

\* a review with a keyword in capitals was a crisis without the caller's
\* flag, and a reply with a keyword was none on a clean review
C32_KeywordAloneMakesCrisis ==
    /\ \E c \in GenerateCalls :
          /\ c.reviewText = TextUnsafeUpper /\ ~c.callerCrisis /\ c.isCrisis
    /\ \E c \in GenerateCalls :
          /\ c.reviewText = TextClean /\ c.reply = TextUnsafe
          /\ ~c.callerCrisis /\ ~c.isCrisis

\* C38: a generation result with isCrisis = true is also flagged = true.
C38_CrisisIsFlagged ==
    \A c \in GenerateCalls : c.isCrisis => c.flagged

(***************************************************************************)
(* Properties of the length bound                                          *)
(***************************************************************************)
\* the calls of filterPolicy made so far
LengthCalls == {filterCalls[i] : i \in 1..Len(filterCalls)}
HasLengthViolation(c) ==
    \E i \in 1..Len(c.violations) : c.violations[i] = LENGTH_MESSAGE

\* C33: filterPolicy reports the length violation for every text longer
\* than 500 characters and for no text of 500 characters or fewer, and a
\* text of at most 500 characters without PII or banned phrase passes.
C33_LengthBoundStrict ==
    \A c \in LengthCalls :
        /\ HasLengthViolation(c) = (Len(c.text) > MaxReplyLength)
        /\ (c.text \in CleanLengthTexts /\ Len(c.text) <= MaxReplyLength) => c.passed
        /\ Len(c.text) > MaxReplyLength => ~c.passed

\* "a" x 500 passed and "a" x 501 did not
C33_FiveHundredPassed ==
    /\ \E c \in LengthCalls : Len(c.text) = MaxReplyLength /\ c.text[1] = "a" /\ c.passed
    /\ \E c \in LengthCalls :
          /\ Len(c.text) = MaxReplyLength + 1 /\ c.text[1] = "a" /\ ~c.passed
          /\ c.violations = <<LENGTH_MESSAGE>>

(***************************************************************************)
(* Properties of the Google webhook                                        *)
(***************************************************************************)
\* the review.created events for a place a location is configured with
\* that were delivered twice, both deliveries answered
DeliveredTwice ==
    {deliveries[i] : i \in {k \in 1..Len(deliveries) :
        /\ deliveries[k].action = "review.created"
        /\ LocationsOfPlace(deliveries[k].review.placeId) # {}
        /\ \E m \in 1..(k - 1) : deliveries[m] = deliveries[k]
        /\ hook.pc = "idle"}}

\* the rows of the Google review of an event
RowsOfEvent(e) ==
    {x \in reviews : x.platform = "GOOGLE" /\ x.platformId = e.review.id}

\* C34: the same review.created event delivered twice yields exactly one
\* Review row of that review.
C34_WebhookIdempotent ==
    \A e \in DeliveredTwice : Cardinality(RowsOfEvent(e)) = 1

\* the second half of the claim: a review.created event that was delivered
\* before leaves the Review table as it is and starts no create
C34_SecondDeliveryChangesNothing ==
    [][\A e \in [action : {"review.created"}, review : HookReviews] :
          (/\ Len(deliveries') = Len(deliveries) + 1
           /\ deliveries'[Len(deliveries')] = e
           /\ \E m \in 1..Len(deliveries) : deliveries[m] = e) =>
              /\ reviews' = reviews
              /\ hook'.pc = "idle"
              /\ hook'.status = 200]_vars

\* the rows of the platformId of an event, whatever their platform
C34_AtMostOneRowOfPlatformId ==
    \A e \in DeliveredTwice :
        Cardinality({x \in reviews : x.platformId = e.review.id}) = 1

(***************************************************************************)
(* Properties of the ingestion write under a race                          *)
(***************************************************************************)
\* C35: the write of a draft is arbitrated by the store: unless the store
\* itself fails, the write of a run completes normally (the row is created
\* or updated) and is not counted as an error, also when another run wrote
\* the same platformId between this run's lookup and its write.
C35_RaceCountsNoError ==
    [][\A j \in Runs :
          (/\ ingest[j].pc = "write"
           /\ ingest'[j] # ingest[j]
           /\ ingest'[j].last # "failed") =>
              ingest'[j].last \in {"created", "updated"}]_vars

(***************************************************************************)
(* Properties of a generate whose model call fails                         *)
(***************************************************************************)
\* C36: when the model call of a generate fails, that request is answered
\* with an error and nothing else happens: no Reply row is created, no
\* Review changes, and the review has no more replies than before, so a
\* later generate for it is not answered "Reply already exists".
C36_FailedGenerateLeavesNothing ==
    [][\A p \in Procs :
          (pc[p] = "gen_ai" /\ pc'[p] = "idle") =>
              /\ response'.status = 500
              /\ response'.action = "generate"
              /\ replies' = replies
              /\ reviews' = reviews
              /\ nextReplyId' = nextReplyId
              /\ {x \in replies' : x.reviewId = req[p].reviewId}
                    = ExistingReply(req[p].reviewId)
              /\ \A q \in Procs \ {p} : pc'[q] = pc[q] /\ req'[q] = req[q]]_vars

\* a generate failed in the model call, and the review it was for has no
\* reply
C36_GenerateFailedInModelCall ==
    /\ response.action = "generate"
    /\ response.status = 500
    /\ response.aiCalled
    /\ response.error = "Failed to generate reply"
    /\ ExistingReply("r2") = {}

JustPosted(replyId) ==
    {p \in Procs : pc[p] = "send_markSent" /\ req[p].replyId = replyId}

\* the successful posts of a reply the state shows: one for each request
\* that has just posted it, and one more when the row is SENT
PostsShown(reply) ==
    Cardinality(JustPosted(reply.id)) + (IF reply.status = "SENT" THEN 1 ELSE 0)

\* C39: no reply is posted to the platform twice: postReply does not return
\* true for a reply that is SENT, nor to two requests for the same reply.
C39_PostedAtMostOnce ==
    \A reply \in replies : PostsShown(reply) <= 1

====
